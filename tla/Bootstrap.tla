----------------------------- MODULE Bootstrap -----------------------------
(***************************************************************************)
(* The bootstrapper Job: its container runs check-nodes-discoverability.sh *)
(* and init-cluster.sh (pkg/scripts), which wait for the pods, look at     *)
(* every node's URL, register the client certificate with the first node   *)
(* and join the others to it, one after the other. Both scripts stop at    *)
(* the first error (set -e, pipefail); the container is then restarted and *)
(* starts over, until the Job's backoff limit is reached. No request of    *)
(* theirs has a time limit, and neither has the Job.                       *)
(*                                                                         *)
(* The Job is created before the StatefulSets, which the operator creates  *)
(* one per reconcile, so the scripts run while nodes are still missing.    *)
(***************************************************************************)
EXTENDS Integers, Sequences

CONSTANTS
    Tags,          \* the tags of spec.nodes, each one a sequence of letters
    MaxRetries,    \* rounds of waiting for pods (30 in the script)
    BackoffLimit,  \* restarts the Job allows (3 in BuildJob)
    Troubles,      \* the kinds of trouble considered
    MaxTrouble     \* how many troubles one behaviour may contain

ASSUME TagsAssumption ==
    /\ Len(Tags) \in Nat \ {0} /\ DOMAIN Tags = 1 .. Len(Tags)
    /\ \A n \in DOMAIN Tags : Tags[n] # <<>>
ASSUME LimitsAssumption == MaxRetries \in Nat \ {0} /\ BackoffLimit \in Nat
ASSUME TroubleAssumption ==
    Troubles \subseteq {"request", "hang", "node"} /\ MaxTrouble \in Nat

N == Len(Tags)
Node == 1 .. N
leader == 1                 \* the first node of the spec

VARIABLES
    created,    \* how many StatefulSets the operator has created, in order
    pod,        \* phase of each node's pod
    serving,    \* the nodes whose public URL answers
    trusted,    \* does the leader trust the client certificate?
    topology,   \* the nodes joined to the leader, with their tags
    fronted,    \* does a proxy redirect requests for nodes that do not answer?
    named,      \* do the certificates have the names that the script expects?
    rejoin,     \* does the server accept a node that is a member already?
    job,        \* state of the Job
    restarts,   \* restarts of its container
    pc,         \* where the script is
    i,          \* the round, URL or member it is at
    trouble     \* troubles so far

cluster == <<created, pod, serving>>
server == <<trusted, topology>>
given == <<fronted, named, rejoin>>
vars == <<created, pod, serving, trusted, topology, fronted, named, rejoin, job,
          restarts, pc, i, trouble>>

Steps == {"start", "pods", "https", "certs", "register", "join", "topology",
          "hanging", "ended"}

Member(n, tag) == [node |-> n, tag |-> tag]

TypeOK ==
    /\ created \in 0 .. N
    /\ pod \in [Node -> {"none", "Pending", "Running"}]
    /\ serving \subseteq Node
    /\ trusted \in BOOLEAN
    /\ \A m \in topology : m.node \in Node \ {leader}
    /\ fronted \in BOOLEAN /\ named \in BOOLEAN /\ rejoin \in BOOLEAN
    /\ job \in {"active", "completed", "failed"}
    /\ restarts \in 0 .. BackoffLimit
    /\ pc \in Steps
    /\ i \in 0 .. MaxRetries + N
    /\ trouble \in 0 .. MaxTrouble

Init ==
    /\ created = 0
    /\ pod = [n \in Node |-> "none"]
    /\ serving = {}
    /\ trusted = FALSE
    /\ topology = {}
    /\ fronted \in BOOLEAN
    /\ named \in BOOLEAN
    /\ rejoin \in BOOLEAN
    /\ job = "active"
    /\ restarts = 0
    /\ pc = "start"
    /\ i = 0
    /\ trouble = 0

-----------------------------------------------------------------------------
(* Helpers *)

Hit(kind) ==
    /\ kind \in Troubles
    /\ trouble < MaxTrouble
    /\ trouble' = trouble + 1

To(step, index) ==
    /\ pc' = step
    /\ i' = index
    /\ UNCHANGED <<job, restarts>>

(* Mutation: one restart more than the Job allows.                         *)
ExitOnceMore ==
    /\ i' = 0
    /\ IF restarts <= BackoffLimit
       THEN pc' = "start" /\ restarts' = restarts + 1 /\ UNCHANGED job
       ELSE pc' = "ended" /\ job' = "failed" /\ UNCHANGED restarts

(* The script exits with an error: the container is restarted, or the Job  *)
(* fails for good.                                                         *)
Exit ==
    /\ i' = 0
    /\ IF restarts < BackoffLimit
       THEN pc' = "start" /\ restarts' = restarts + 1 /\ UNCHANGED job
       ELSE pc' = "ended" /\ job' = "failed" /\ UNCHANGED restarts

-----------------------------------------------------------------------------
(* check-nodes-discoverability.sh *)

InstallKubectl ==
    /\ pc = "start"
    /\ \/ To("pods", 1) /\ UNCHANGED trouble
       \/ Exit /\ Hit("request")
    /\ UNCHANGED <<cluster, server, given>>

(* Only pods that exist are listed: a node without one is not waited for.  *)
NotRunning == {n \in Node : pod[n] = "Pending"}

(* Mutation: the rounds are not counted.                                   *)
WaitForPodsForever ==
    /\ pc = "pods"
    /\ IF NotRunning = {} THEN To("https", 1) ELSE To("pods", i)
    /\ UNCHANGED <<cluster, server, given, trouble>>

(* A failing kubectl looks like an empty list of pods (|| true).           *)
wait_for_ravendb_pods ==
    /\ pc = "pods"
    /\ \/ NotRunning = {} /\ To("https", 1) /\ UNCHANGED trouble
       \/ NotRunning # {} /\ To("https", 1) /\ Hit("request")
       \/ NotRunning # {} /\ i < MaxRetries /\ To("pods", i + 1)
             /\ UNCHANGED trouble
       \/ NotRunning # {} /\ i = MaxRetries /\ Exit /\ UNCHANGED trouble
    /\ UNCHANGED <<cluster, server, given>>

(* The answer has a Location header. It is that of Studio when the node    *)
(* gave it, but another one is only logged.                                *)
Redirects(n) == n \in serving \/ fronted

(* Mutation: a node that does not answer is skipped.                       *)
CheckHttpsSkipping ==
    /\ pc = "https"
    /\ IF i < N THEN To("https", i + 1) ELSE To("certs", 0)
    /\ UNCHANGED <<cluster, server, given, trouble>>

(* No answer, or none with a Location header, ends the script.             *)
check_https_reachability ==
    /\ pc = "https"
    /\ \/ Redirects(i) /\ i < N /\ To("https", i + 1) /\ UNCHANGED trouble
       \/ Redirects(i) /\ i = N /\ To("certs", 0) /\ UNCHANGED trouble
       \/ ~Redirects(i) /\ Exit /\ UNCHANGED trouble
       \/ Redirects(i) /\ Exit /\ Hit("request")
    /\ UNCHANGED <<cluster, server, given>>

-----------------------------------------------------------------------------
(* init-cluster.sh *)

(* The files are server.pfx and client.pfx, whatever the webhook accepts.  *)
convert_pfx_to_pem_and_key ==
    /\ pc = "certs"
    /\ IF named THEN To("register", 0) ELSE Exit
    /\ UNCHANGED <<cluster, server, given, trouble>>

AfterRegister == IF N = 1 THEN To("topology", 0) ELSE To("join", 2)

(* Mutation: a certificate that is trusted already is an error.            *)
RegisterAdminCertOnce ==
    /\ pc = "register"
    /\ IF pod[leader] = "Running" /\ ~trusted
       THEN AfterRegister /\ trusted' = TRUE
       ELSE Exit /\ UNCHANGED trusted
    /\ UNCHANGED <<cluster, topology, given, trouble>>

(* Commands are run in the leader's pod. What rvn answers is discarded.    *)
register_admin_cert ==
    /\ pc = "register"
    /\ \/ /\ pod[leader] = "Running"
          /\ AfterRegister
          /\ \/ trusted' = TRUE /\ UNCHANGED trouble
             \/ UNCHANGED trusted /\ Hit("request")
       \/ /\ \/ pod[leader] # "Running" /\ UNCHANGED trouble
             \/ pod[leader] = "Running" /\ Hit("request")
          /\ Exit
          /\ UNCHANGED trusted
    /\ UNCHANGED <<cluster, topology, given>>

(* The first letter of the host.                                           *)
tag_from_url(n) == <<Head(Tags[n])>>

(* The leader's answer to the request for node n.                          *)
Accepts(n) ==
    /\ trusted
    /\ {leader, n} \subseteq serving
    /\ \A m \in topology : m.tag = tag_from_url(n) => m.node = n
    /\ (\E m \in topology : m.node = n) => rejoin

Joined(n) == topology' = topology \cup {Member(n, tag_from_url(n))}

AfterJoin(n) == IF n < N THEN To("join", n + 1) ELSE To("topology", 0)

(* Mutation: the code of the answer is not looked at.                      *)
JoinUnchecked ==
    /\ pc = "join"
    /\ AfterJoin(i)
    /\ IF Accepts(i) THEN Joined(i) ELSE UNCHANGED topology
    /\ UNCHANGED <<cluster, trusted, given, trouble>>

(* An answer other than 20x ends the script; one that is lost does too,    *)
(* although the node may have been joined.                                 *)
join_node_to_cluster ==
    /\ pc = "join"
    /\ \/ Accepts(i) /\ Joined(i) /\ AfterJoin(i) /\ UNCHANGED trouble
       \/ ~Accepts(i) /\ Exit /\ UNCHANGED <<topology, trouble>>
       \/ /\ Accepts(i)
          /\ Exit
          /\ Hit("request")
          /\ Joined(i) \/ UNCHANGED topology
    /\ UNCHANGED <<cluster, trusted, given>>

(* It only prints, but an error of it fails the script as well.            *)
print_topology ==
    /\ pc = "topology"
    /\ \/ /\ leader \in serving
          /\ pc' = "ended"
          /\ job' = "completed"
          /\ UNCHANGED <<restarts, i, trouble>>
       \/ leader \notin serving /\ Exit /\ UNCHANGED trouble
       \/ leader \in serving /\ Exit /\ Hit("request")
    /\ UNCHANGED <<cluster, server, given>>

(* A request of a script is accepted and never answered, although what it  *)
(* asks for may have been done.                                            *)
Hang ==
    /\ pc \in {"start", "https", "register", "join", "topology"}
    /\ Hit("hang")
    /\ To("hanging", 0)
    /\ \/ UNCHANGED server
       \/ pc = "register" /\ pod[leader] = "Running"
             /\ trusted' = TRUE /\ UNCHANGED topology
       \/ pc = "join" /\ Accepts(i) /\ Joined(i) /\ UNCHANGED trusted
    /\ UNCHANGED <<cluster, given>>

(* The connection breaks, which is an error of the request.                *)
Break ==
    /\ pc = "hanging"
    /\ Exit
    /\ UNCHANGED <<cluster, server, given, trouble>>

(* The Job controller may find the limit reached while the last attempt is *)
(* running, and ends it.                                                   *)
GiveUp ==
    /\ job = "active"
    /\ restarts = BackoffLimit
    /\ pc' = "ended"
    /\ job' = "failed"
    /\ i' = 0
    /\ UNCHANGED <<cluster, server, given, restarts, trouble>>

-----------------------------------------------------------------------------
(* The operator and Kubernetes. *)

CreateNode ==
    /\ created < N
    /\ created' = created + 1
    /\ UNCHANGED <<pod, serving, server, given, job, restarts, pc, i, trouble>>

SchedulePod(n) ==
    /\ n <= created
    /\ pod[n] = "none"
    /\ pod' = [pod EXCEPT ![n] = "Pending"]
    /\ UNCHANGED <<created, serving, server, given, job, restarts, pc, i, trouble>>

RunPod(n) ==
    /\ pod[n] = "Pending"
    /\ pod' = [pod EXCEPT ![n] = "Running"]
    /\ UNCHANGED <<created, serving, server, given, job, restarts, pc, i, trouble>>

Serve(n) ==
    /\ pod[n] = "Running"
    /\ n \notin serving
    /\ serving' = serving \cup {n}
    /\ UNCHANGED <<created, pod, server, given, job, restarts, pc, i, trouble>>

(* The pod is deleted or evicted; its StatefulSet makes a new one, on the  *)
(* same volume.                                                            *)
LosePod(n) ==
    /\ pod[n] # "none"
    /\ Hit("node")
    /\ pod' = [pod EXCEPT ![n] = "none"]
    /\ serving' = serving \ {n}
    /\ UNCHANGED <<created, server, given, job, restarts, pc, i>>

(* The server restarts in its pod.                                         *)
FailNode(n) ==
    /\ n \in serving
    /\ Hit("node")
    /\ serving' = serving \ {n}
    /\ UNCHANGED <<created, pod, server, given, job, restarts, pc, i>>

-----------------------------------------------------------------------------
Script ==
    \/ InstallKubectl \/ wait_for_ravendb_pods \/ check_https_reachability
    \/ convert_pfx_to_pem_and_key \/ register_admin_cert
    \/ join_node_to_cluster \/ print_topology

World ==
    \/ CreateNode
    \/ \E n \in Node : SchedulePod(n) \/ RunPod(n) \/ Serve(n) \/ LosePod(n)
                         \/ FailNode(n)

Next == Script \/ Hang \/ Break \/ GiveUp \/ World

Spec == Init /\ [][Next]_vars

(* The container runs. Nothing is assumed of the nodes it waits for, nor   *)
(* that a request which hangs ever ends.                                   *)
FairSpec == Spec /\ WF_vars(Script)

-----------------------------------------------------------------------------
(* Properties *)

Members == {m.node : m \in topology} \cup {leader}

(* A Job that has completed has joined every node of the spec, whatever    *)
(* failed in this attempt or in an earlier one (join_node_to_cluster): it  *)
(* is what the operator takes BootstrapCompleted to mean.                  *)
CompletedMeansFormed == job = "completed" => Members = Node

(* The Job ends even if pods never run and nodes never answer              *)
(* (MAX_RETRIES, backoffLimit), unless a request hangs and stays so.       *)
JobEndsUnlessHung == <>(job # "active") \/ <>[](pc = "hanging")

(* An attempt that begins when all nodes answer, and meets no more trouble *)
(* and no limit, completes the Job, whatever earlier attempts have left    *)
(* behind: a half joined cluster, a registered certificate. It depends on  *)
(* the server taking a repeated join.                                      *)
RetryCompletes ==
    (/\ pc = "start" /\ restarts < BackoffLimit
     /\ serving = Node /\ trouble = MaxTrouble
     /\ named /\ rejoin) ~> (job = "completed")

(* Unless a proxy answers in their place, no node is joined before every   *)
(* node of the spec exists: the wait for the pods passes with nodes that   *)
(* are still missing, the check of the URLs does not                       *)
(* (check_https_reachability, in this attempt or in an earlier one).       *)
JoinsWaitForAll == topology # {} /\ ~fronted => created = N

=============================================================================
