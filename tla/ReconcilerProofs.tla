-------------------------- MODULE ReconcilerProofs --------------------------
(***************************************************************************)
(* Theorems about the reconcile loop and the status that it stores, for    *)
(* any number of nodes and images and any number of troubles of every kind.*)
(***************************************************************************)
EXTENDS Reconciler, TLAPS

-----------------------------------------------------------------------------
(* The evaluator (module Health). *)

(* The reasons that the evaluator gives, and a condition of the status.    *)
Reasons == {"", "Completed", "PVCNotBound", "CertSecretMissing",
            "LicenseSecretMissing", "WaitingForPods", "PodsNotReady",
            "IngressPendingAddress", "LoadBalancerPending", "BootstrapFailed",
            "BootstrapJobRunning", "StatefulSetUpdating",
            "CertificatesReady", "LicensesValid", "StorageReady", "NodesHealthy",
            "BootstrapCompleted", "ExternalAccessReady"}
Cond == [status : {"", "True", "False"}, reason : Reasons]

(* The names of the conditions, one by one.                                *)
LEMMA ConditionNames ==
    Conditions = {"CertificatesReady", "LicensesValid", "StorageReady",
                  "NodesHealthy", "BootstrapCompleted", "ExternalAccessReady",
                  "Progressing", "Degraded", "Ready"}
<1>1. DOMAIN Required = 1 .. 6
  BY DEF Required
<1>2. /\ Required[1] = "CertificatesReady" /\ Required[2] = "LicensesValid"
      /\ Required[3] = "StorageReady" /\ Required[4] = "NodesHealthy"
      /\ Required[5] = "BootstrapCompleted" /\ Required[6] = "ExternalAccessReady"
  BY DEF Required
<1>3. \A i \in 1 .. 6 : i \in {1, 2, 3, 4, 5, 6}
  OBVIOUS
<1> QED BY <1>1, <1>2, <1>3 DEF Conditions

(* The evaluators of the single conditions return conditions.              *)
LEMMA EvaluatorTypes ==
    ASSUME NEW f, NEW b
    PROVE  /\ evalStorage(f) \in Cond
           /\ evalCertificates(f) \in Cond
           /\ evalLicense(f) \in Cond
           /\ evalNodesHealthy(f) \in Cond
           /\ evalExternalAccessReady(f) \in Cond
           /\ evalBootstrap(f) \in Cond
           /\ evalProgressingCase(f) \in Cond
           /\ evalDegradingCase(b, f) \in Cond
<1>1. \A r \in Reasons : True(r) \in Cond /\ False(r) \in Cond
  BY DEF True, False, Cond
<1>2. /\ Completed \in Reasons
      /\ {"PVCNotBound", "CertSecretMissing", "LicenseSecretMissing",
          "WaitingForPods", "PodsNotReady", "IngressPendingAddress",
          "LoadBalancerPending", "BootstrapFailed", "BootstrapJobRunning",
          "StatefulSetUpdating"} \subseteq Reasons
  BY DEF Completed, Reasons
<1>3. evalStorage(f) \in Cond /\ evalCertificates(f) \in Cond /\ evalLicense(f) \in Cond
  BY <1>1, <1>2 DEF evalStorage, evalCertificates, evalLicense
<1>4. evalNodesHealthy(f) \in Cond
  BY <1>1, <1>2 DEF evalNodesHealthy
<1>5. evalExternalAccessReady(f) \in Cond
  BY <1>1, <1>2 DEF evalExternalAccessReady
<1>6. evalBootstrap(f) \in Cond
  BY <1>1, <1>2 DEF evalBootstrap
<1>7. evalProgressingCase(f) \in Cond
  BY <1>1, <1>2 DEF evalProgressingCase
<1>8. evalDegradingCase(b, f) \in Cond
  BY <1>1, <1>2 DEF evalDegradingCase
<1> QED BY <1>3, <1>4, <1>5, <1>6, <1>7, <1>8

(* Ready is a condition, and True when every required condition is.        *)
LEMMA ReadyRollUp ==
    ASSUME NEW c \in [Conditions -> Cond], NEW x \in BOOLEAN
    PROVE  /\ ComputeReady(c, x) \in Cond
           /\ IsTrue(ComputeReady(c, x)) <=>
                 /\ IsTrue(c["CertificatesReady"]) /\ IsTrue(c["LicensesValid"])
                 /\ IsTrue(c["StorageReady"]) /\ IsTrue(c["NodesHealthy"])
                 /\ IsTrue(c["BootstrapCompleted"])
                 /\ x => IsTrue(c["ExternalAccessReady"])
<1> DEFINE open == Unsatisfied(c, x)
<1>1. /\ DOMAIN Required = 1 .. 6
      /\ Required[1] = "CertificatesReady" /\ Required[2] = "LicensesValid"
      /\ Required[3] = "StorageReady" /\ Required[4] = "NodesHealthy"
      /\ Required[5] = "BootstrapCompleted" /\ Required[6] = "ExternalAccessReady"
  BY DEF Required
<1>2. \A i \in 1 .. 6 : i \in {1, 2, 3, 4, 5, 6}
  OBVIOUS
<1>3. open \subseteq 1 .. 6
  BY <1>1 DEF Unsatisfied
<1>4. /\ 1 \in open <=> ~IsTrue(c["CertificatesReady"])
      /\ 2 \in open <=> ~IsTrue(c["LicensesValid"])
      /\ 3 \in open <=> ~IsTrue(c["StorageReady"])
      /\ 4 \in open <=> ~IsTrue(c["NodesHealthy"])
      /\ 5 \in open <=> ~IsTrue(c["BootstrapCompleted"])
      /\ 6 \in open <=> (x /\ ~IsTrue(c["ExternalAccessReady"]))
  BY <1>1 DEF Unsatisfied
<1>5. open = {} <=> \A i \in {1, 2, 3, 4, 5, 6} : i \notin open
  BY <1>2, <1>3
<1>6. IsTrue(True(Completed)) /\ \A r : ~IsTrue(False(r))
  BY DEF IsTrue, True, False
<1> HIDE DEF open
<1>7. IsTrue(ComputeReady(c, x)) <=> open = {}
  BY <1>6 DEF ComputeReady, open
<1>8. ASSUME open # {}
      PROVE  \E i \in open : \A j \in open : i <= j
  <2>1. CASE 1 \in open
    BY <1>3, <2>1
  <2>2. CASE 1 \notin open /\ 2 \in open
    BY <1>3, <2>2
  <2>3. CASE 1 \notin open /\ 2 \notin open /\ 3 \in open
    BY <1>3, <2>3
  <2>4. CASE 1 \notin open /\ 2 \notin open /\ 3 \notin open /\ 4 \in open
    BY <1>3, <2>4
  <2>5. CASE /\ 1 \notin open /\ 2 \notin open /\ 3 \notin open /\ 4 \notin open
             /\ 5 \in open
    BY <1>3, <2>5
  <2>6. CASE /\ 1 \notin open /\ 2 \notin open /\ 3 \notin open /\ 4 \notin open
             /\ 5 \notin open
    <3>1. \A i \in open : i = 6
      BY <1>2, <1>3, <2>6
    <3> QED BY <1>8, <3>1
  <2> QED BY <2>1, <2>2, <2>3, <2>4, <2>5, <2>6
<1>9. ASSUME open # {}
      PROVE  Required[CHOOSE i \in open : \A j \in open : i <= j] \in Reasons
  <2> DEFINE k == CHOOSE i \in open : \A j \in open : i <= j
  <2>1. k \in 1 .. 6
    BY <1>3, <1>8, <1>9
  <2> HIDE DEF k
  <2>2. k \in {1, 2, 3, 4, 5, 6}
    BY <1>2, <2>1
  <2>3. Required[k] \in {"CertificatesReady", "LicensesValid", "StorageReady",
                        "NodesHealthy", "BootstrapCompleted", "ExternalAccessReady"}
    BY <1>1, <2>2
  <2>4. Required[k] \in Reasons
    BY <2>3 DEF Reasons
  <2> QED BY <2>4 DEF k
<1>10. ComputeReady(c, x) \in Cond
  <2>1. \A r \in Reasons : True(r) \in Cond /\ False(r) \in Cond
    BY DEF True, False, Cond
  <2>2. Completed \in Reasons
    BY DEF Completed, Reasons
  <2> QED BY <1>9, <2>1, <2>2 DEF ComputeReady, open
<1> QED BY <1>4, <1>5, <1>7, <1>10

(* What the evaluator makes of the facts, condition by condition.          *)
LEMMA EvaluateFacts ==
    ASSUME NEW c \in [Conditions -> Cond], NEW x \in BOOLEAN, NEW f
    PROVE  /\ Evaluate(c, x, f) \in [Conditions -> Cond]
           /\ Evaluate(c, x, f)["NodesHealthy"] = evalNodesHealthy(f)
           /\ Evaluate(c, x, f)["BootstrapCompleted"] = evalBootstrap(f)
           /\ Evaluate(c, x, f)["Progressing"] = evalProgressingCase(f)
           /\ Evaluate(c, x, f)["ExternalAccessReady"] =
                 IF x THEN evalExternalAccessReady(f) ELSE c["ExternalAccessReady"]
           /\ IsTrue(Evaluate(c, x, f)["Ready"]) <=>
                 /\ IsTrue(evalCertificates(f)) /\ IsTrue(evalLicense(f))
                 /\ IsTrue(evalStorage(f)) /\ IsTrue(evalNodesHealthy(f))
                 /\ IsTrue(evalBootstrap(f))
                 /\ x => IsTrue(evalExternalAccessReady(f))
<1> DEFINE b == [c EXCEPT
                   !["StorageReady"] = evalStorage(f),
                   !["CertificatesReady"] = evalCertificates(f),
                   !["LicensesValid"] = evalLicense(f),
                   !["NodesHealthy"] = evalNodesHealthy(f),
                   !["ExternalAccessReady"] =
                        IF x THEN evalExternalAccessReady(f) ELSE @,
                   !["BootstrapCompleted"] = evalBootstrap(f),
                   !["Progressing"] = evalProgressingCase(f),
                   !["Degraded"] = evalDegradingCase(evalBootstrap(f), f)]
<1>1. /\ b \in [Conditions -> Cond]
      /\ b["StorageReady"] = evalStorage(f)
      /\ b["CertificatesReady"] = evalCertificates(f)
      /\ b["LicensesValid"] = evalLicense(f)
      /\ b["NodesHealthy"] = evalNodesHealthy(f)
      /\ b["BootstrapCompleted"] = evalBootstrap(f)
      /\ b["Progressing"] = evalProgressingCase(f)
      /\ b["ExternalAccessReady"] =
            IF x THEN evalExternalAccessReady(f) ELSE c["ExternalAccessReady"]
  BY EvaluatorTypes, ConditionNames
<1>2. Evaluate(c, x, f) = [b EXCEPT !["Ready"] = ComputeReady(b, x)]
  BY DEF Evaluate
<1> HIDE DEF b
<1>3. ComputeReady(b, x) \in Cond
  BY <1>1, ReadyRollUp
<1>4. /\ Evaluate(c, x, f) \in [Conditions -> Cond]
      /\ Evaluate(c, x, f)["Ready"] = ComputeReady(b, x)
      /\ \A k \in Conditions : k # "Ready" => Evaluate(c, x, f)[k] = b[k]
  BY <1>1, <1>2, <1>3, ConditionNames
<1>5. IsTrue(ComputeReady(b, x)) <=>
         /\ IsTrue(evalCertificates(f)) /\ IsTrue(evalLicense(f))
         /\ IsTrue(evalStorage(f)) /\ IsTrue(evalNodesHealthy(f))
         /\ IsTrue(evalBootstrap(f))
         /\ x => IsTrue(evalExternalAccessReady(f))
  BY <1>1, ReadyRollUp
<1> QED BY <1>1, <1>4, <1>5, ConditionNames

(* The phase is a phase, and Running only when Ready is True.              *)
LEMMA PhaseFacts ==
    ASSUME NEW c
    PROVE  /\ UpdatePhaseFromConditions(c) \in Phases
           /\ UpdatePhaseFromConditions(c) = "Running" => IsTrue(c["Ready"])
BY DEF UpdatePhaseFromConditions, Phases

-----------------------------------------------------------------------------
(* Type correctness. *)

(* What a stored or a cached status looks like, and a pod.                 *)
Status == [conds : [Conditions -> Cond], phase : Phases]
PodType == [image : Image \cup {NoImage},
            state : {"none", "pending", "running", "ready"},
            restarts : 0 .. RestartThreshold]
StatusType == [pod : {"none", "pending", "ready"},
               current : Image \cup {NoImage},
               update : Image \cup {NoImage}]

(* With it, a reconcile has an image to go for.                            *)
TypeInv ==
    /\ TypeOK
    /\ stored \in Status /\ seen \in Status
    /\ pc # "idle" => want \in Image

(* The lists that the collector makes, one by one.                         *)
LEMMA KindNames ==
    /\ Kinds = {"statefulSets", "jobs", "pods", "pvcs", "services", "ingresses",
                "secrets"}
    /\ Len(Lists) = 7 /\ DOMAIN Lists = {1, 2, 3, 4, 5, 6, 7}
    /\ Lists[1] = "statefulSets" /\ Lists[2] = "jobs" /\ Lists[3] = "pods"
    /\ Lists[4] = "pvcs" /\ Lists[5] = "services" /\ Lists[6] = "ingresses"
    /\ Lists[7] = "secrets"
<1>1. Len(Lists) = 7 /\ DOMAIN Lists = 1 .. 7
  BY DEF Lists
<1>2. \A i : i \in 1 .. 7 <=> i \in {1, 2, 3, 4, 5, 6, 7}
  OBVIOUS
<1>3. DOMAIN Lists = {1, 2, 3, 4, 5, 6, 7}
  BY <1>1, <1>2
<1>4. /\ Lists[1] = "statefulSets" /\ Lists[2] = "jobs" /\ Lists[3] = "pods"
      /\ Lists[4] = "pvcs" /\ Lists[5] = "services" /\ Lists[6] = "ingresses"
      /\ Lists[7] = "secrets"
  BY DEF Lists
<1> QED BY <1>1, <1>3, <1>4 DEF Kinds

(* The patched status is a status.                                         *)
LEMMA MergedType ==
    ASSUME TypeInv
    PROVE  Merged \in Status
<1>1. external \in BOOLEAN
  BY DEF external
<1>2. seen.conds \in [Conditions -> Cond] /\ stored.conds \in [Conditions -> Cond]
      /\ stored.phase \in Phases
  BY DEF TypeInv, Status
<1>3. Evaluate(seen.conds, external, facts) \in [Conditions -> Cond]
  BY <1>1, <1>2, EvaluateFacts
<1> QED BY <1>2, <1>3, PhaseFacts DEF Merged, Status

(* Trouble stays within its bound.                                         *)
LEMMA HitType ==
    ASSUME TypeOK, NEW kind, Hit(kind)
    PROVE  trouble' \in 0 .. MaxTrouble
BY TroubleAssumption DEF TypeOK, Hit

(* No facts have the shape of facts.                                       *)
LEMMA NoFactsType == DOMAIN NoFacts = Kinds
BY KindNames DEF NoFacts

(* The end of a reconcile, however it ends.                                *)
LEMMA EndType ==
    ASSUME TypeInv, stored' \in Status, seen' \in {seen, stored'},
           pc' = "idle", want' = NoImage, facts' = NoFacts, queued' \in BOOLEAN,
           trouble' \in 0 .. MaxTrouble,
           UNCHANGED <<user, objects, blind>>
    PROVE  TypeInv'
<1>1. seen' \in Status
  BY DEF TypeInv
<1>2. /\ DOMAIN stored'.conds = Conditions /\ DOMAIN seen'.conds = Conditions
      /\ stored'.phase \in Phases /\ seen'.phase \in Phases
  BY <1>1 DEF Status
<1>3. DOMAIN facts' = Kinds /\ want' \in Image \cup {NoImage} /\ pc' \in Steps
  BY NoFactsType DEF Steps
<1> QED
  BY <1>1, <1>2, <1>3 DEF TypeInv, TypeOK, user, objects, nodes

(* A pod that changes stays a pod.                                         *)
LEMMA PodChangeType ==
    ASSUME TypeInv, NEW n \in Node, NEW p \in PodType, Becomes(n, p),
           trouble' \in 0 .. MaxTrouble
    PROVE  TypeInv'
<1>1. pod \in [Node -> PodType]
  BY DEF TypeInv, TypeOK, PodType
<1>2. pod' \in [Node -> PodType]
  BY <1>1 DEF Becomes
<1>3. UNCHANGED <<image, access, secrets, sts, status, bound, svc, ingress, job, stored,
                  seen, queued, pc, want, facts, blind>>
  BY DEF Becomes, user, local
<1> QED
  BY <1>2, <1>3 DEF TypeInv, TypeOK, PodType

(* What the StatefulSet controller records is a status.                    *)
LEMMA ObservedType ==
    ASSUME TypeInv, NEW n \in Node
    PROVE  Observed(n) \in StatusType
<1>1. /\ pod[n] \in PodType /\ status[n] \in StatusType
      /\ sts[n] \in Image \cup {NoImage}
  BY DEF TypeInv, TypeOK, PodType, StatusType
<1>2. pod[n].state \in {"none", "pending", "running", "ready"}
  BY <1>1 DEF PodType
<1>3. status[n].current \in Image \cup {NoImage}
  BY <1>1 DEF StatusType
<1> QED BY <1>1, <1>2, <1>3 DEF Observed, StatusType

(* Every step keeps the types.                                             *)
LEMMA TypeStep ==
    ASSUME TypeInv, [Next]_vars
    PROVE  TypeInv'
<1>w. /\ TypeOK /\ stored \in Status /\ seen \in Status
      /\ pc # "idle" => want \in Image
  BY DEF TypeInv
<1>m. Merged \in Status
  BY MergedType
<1>h. ASSUME NEW kind, Hit(kind) PROVE trouble' \in 0 .. MaxTrouble
  BY <1>w, <1>h, HitType
<1>1. CASE Get
  <2>1. seen' \in Status /\ DOMAIN seen'.conds = Conditions /\ seen'.phase \in Phases
    BY <1>1, <1>w DEF Get, Status
  <2>2. want' \in Image /\ blind' \in BOOLEAN /\ queued' \in BOOLEAN
    BY <1>1, <1>w DEF Get, TypeOK
  <2> QED
    BY <1>1, <1>w, <2>1, <2>2 DEF TypeInv, TypeOK, Get, Go, Steps, user, objects, nodes
<1>2. CASE ApplyIngress
  BY <1>2, <1>w DEF TypeInv, TypeOK, ApplyIngress, Go, Wake, Steps, user, nodes
<1>3. CASE ApplyJob
  <2>1. job' \in [image : Image \cup {NoImage},
                  state : {"none", "active", "completed", "failed"}]
    <3>1. want \in Image
      BY <1>3, <1>w DEF ApplyJob, Go
    <3>2. BuildJob \in [image : Image \cup {NoImage},
                       state : {"none", "active", "completed", "failed"}]
      BY <3>1 DEF BuildJob
    <3> QED BY <1>3, <1>w, <3>2 DEF TypeOK, ApplyJob
  <2>2. queued' \in BOOLEAN
    BY <1>3, <1>w DEF TypeOK, ApplyJob, Wake
  <2> QED
    BY <1>3, <1>w, <2>1, <2>2 DEF TypeInv, TypeOK, ApplyJob, Go, Steps, user, nodes
<1>4. CASE ApplyJobRejected
  BY <1>4, <1>w, EndType DEF ApplyJobRejected, EndReconcile, Wake, TypeOK
<1>5. CASE ApplyHooks
  BY <1>5, <1>w DEF TypeInv, TypeOK, ApplyHooks, Go, Steps, user, objects, nodes
<1>6. CASE ExecutePerClusterFails
  BY <1>6, <1>w, <1>h, EndType DEF ExecutePerClusterFails, EndReconcile, Wake, TypeOK
<1>7. CASE Run
  <2>1. ASSUME NEW n \in Node, applyNode(n), want \in Image
        PROVE  /\ sts' \in [Node -> Image \cup {NoImage}]
               /\ svc' \in [Node -> {"none", "pending", "ready"}]
               /\ queued' \in BOOLEAN
               /\ UNCHANGED <<status, pod, bound>>
    BY <2>1, <1>w DEF TypeOK, applyNode, Wake
  <2>2. /\ sts' \in [Node -> Image \cup {NoImage}]
        /\ svc' \in [Node -> {"none", "pending", "ready"}]
        /\ queued' \in BOOLEAN
        /\ UNCHANGED <<status, pod, bound>>
    BY <1>7, <1>w, <2>1 DEF Run, Go, TypeOK, nodes
  <2> QED
    BY <1>7, <1>w, <2>2, KindNames DEF TypeInv, TypeOK, Run, Go, Steps, user
<1>8. CASE RunFails \/ RunRefused
  <2>1. trouble' \in 0 .. MaxTrouble /\ pc' \in Steps /\ pc # "idle"
    BY <1>8, <1>w, <1>h, KindNames DEF TypeOK, RunFails, RunRefused, Go, Steps
  <2>2. UNCHANGED <<user, objects, stored, seen, queued, want, facts, blind>>
    BY <1>8 DEF RunFails, RunRefused
  <2> QED
    BY <2>1, <2>2, <1>w DEF TypeInv, TypeOK, user, objects, nodes
<1>9. CASE Collect
  <2>1. PICK i \in DOMAIN Lists :
           /\ Go(Lists[i], IF i < Len(Lists) THEN Lists[i + 1] ELSE "patch")
           /\ facts' = [facts EXCEPT ![Lists[i]] = Listed(Lists[i])]
           /\ UNCHANGED <<user, objects, stored, seen, queued, want, blind, trouble>>
    BY <1>9 DEF Collect
  <2>2. DOMAIN facts' = Kinds
    BY <2>1, <1>w DEF TypeOK
  <2>3. pc # "idle" /\ pc' \in Steps
    BY <2>1, KindNames DEF Go, Steps
  <2> QED
    BY <2>1, <2>2, <2>3, <1>w DEF TypeInv, TypeOK, user, objects, nodes
<1>10. CASE CollectFails
  <2>1. pc # "idle" /\ pc' \in Steps
    BY <1>10, KindNames DEF CollectFails, Steps
  <2> QED
    BY <1>10, <2>1, <1>w, <1>h DEF TypeInv, TypeOK, CollectFails, user, objects, nodes
<1>11. CASE Patch
  BY <1>11, <1>w, <1>m, EndType DEF Patch, EndReconcile, Wake, TypeOK
<1>12. CASE PatchUnseen
  BY <1>12, <1>w, <1>m, <1>h, EndType DEF PatchUnseen, Go, TypeOK
<1>13. CASE PatchFails
  BY <1>13, <1>w, <1>m, <1>h, EndType DEF PatchFails, EndReconcile, Wake, TypeOK
<1>14. CASE Crash
  BY <1>14, <1>w, <1>h, EndType DEF Crash, EndReconcile, Wake, TypeOK
<1>15. CASE RaiseImage
  BY <1>15, <1>w DEF TypeInv, TypeOK, RaiseImage, Wake, objects, nodes, local
<1>16. CASE AddSecret \/ RemoveSecret
  <2>1. /\ secrets' \subseteq CertSecrets \cup {LicenseSecret}
        /\ trouble' \in 0 .. MaxTrouble
    BY <1>16, <1>w, <1>h DEF TypeOK, AddSecret, RemoveSecret
  <2>2. UNCHANGED <<image, access, objects, stored, queued, local>>
    BY <1>16 DEF AddSecret, RemoveSecret
  <2> QED
    BY <2>1, <2>2, <1>w DEF TypeInv, TypeOK, objects, nodes, local
<1>17. ASSUME NEW n \in Node,
              CreatePod(n) \/ DeletePod(n) \/ StartPod(n) \/ ReadyPod(n) \/ RestartPod(n)
       PROVE  TypeInv'
  <2>1. NoPod \in PodType /\ pod[n] \in PodType /\ sts[n] \in Image \cup {NoImage}
    BY <1>w, RestartAssumption DEF TypeOK, NoPod, PodType
  <2>2. CASE CreatePod(n)
    <3>1. [NoPod EXCEPT !.image = sts[n], !.state = "pending"] \in PodType
      BY <2>1 DEF PodType
    <3> QED BY <2>2, <3>1, <1>w, PodChangeType DEF CreatePod, TypeOK
  <2>3. CASE DeletePod(n)
    BY <2>1, <2>3, <1>w, PodChangeType DEF DeletePod, TypeOK
  <2>4. CASE StartPod(n)
    <3>1. [pod[n] EXCEPT !.state = "running"] \in PodType
      BY <2>1 DEF PodType
    <3> QED BY <2>4, <3>1, <1>w, PodChangeType DEF StartPod, TypeOK
  <2>5. CASE ReadyPod(n)
    <3>1. [pod[n] EXCEPT !.state = "ready"] \in PodType
      BY <2>1 DEF PodType
    <3> QED BY <2>5, <3>1, <1>w, PodChangeType DEF ReadyPod, TypeOK
  <2>6. CASE RestartPod(n)
    <3>1. pod[n].restarts + 1 \in 0 .. RestartThreshold
      BY <2>1, <2>6, RestartAssumption DEF RestartPod, PodType
    <3>2. [pod[n] EXCEPT !.state = "running", !.restarts = @ + 1] \in PodType
      BY <2>1, <3>1 DEF PodType
    <3> QED BY <2>6, <3>2, <1>h, PodChangeType DEF RestartPod
  <2> QED BY <1>17, <2>2, <2>3, <2>4, <2>5, <2>6
<1>18. ASSUME NEW n \in Node, BindPVC(n) \/ AllocateService(n)
       PROVE  TypeInv'
  BY <1>18, <1>w DEF TypeInv, TypeOK, BindPVC, AllocateService, Wake, user, local
<1>19. CASE AllocateIngress
  BY <1>19, <1>w DEF TypeInv, TypeOK, AllocateIngress, Wake, user, nodes, local
<1>20. CASE CompleteJob \/ FailJob
  <2>1. job' \in [image : Image \cup {NoImage},
                  state : {"none", "active", "completed", "failed"}]
    BY <1>20, <1>w DEF TypeOK, CompleteJob, FailJob
  <2>2. trouble' \in 0 .. MaxTrouble /\ queued' \in BOOLEAN
    BY <1>20, <1>w, <1>h DEF TypeOK, CompleteJob, FailJob, Wake
  <2> QED
    BY <1>20, <2>1, <2>2, <1>w
       DEF TypeInv, TypeOK, CompleteJob, FailJob, user, nodes, local
<1>21. CASE Resync
  BY <1>21, <1>w DEF TypeInv, TypeOK, Resync, user, objects, nodes, local
<1>22. CASE UNCHANGED vars
  BY <1>22, <1>w DEF TypeInv, TypeOK, vars
<1>23. ASSUME NEW n \in Node, RecordStatus(n)
       PROVE  TypeInv'
  <2>1. status' \in [Node -> StatusType]
    BY <1>23, <1>w, ObservedType DEF RecordStatus, TypeOK, StatusType
  <2>2. queued' \in BOOLEAN
    BY <1>23, <1>w DEF RecordStatus, Wake, TypeOK
  <2>3. UNCHANGED <<user, sts, pod, bound, svc, ingress, job, stored, local, trouble>>
    BY <1>23 DEF RecordStatus
  <2> QED
    BY <2>1, <2>2, <2>3, <1>w DEF TypeInv, TypeOK, StatusType, user, local
<1> QED
  BY <1>1, <1>2, <1>3, <1>4, <1>5, <1>6, <1>7, <1>8, <1>9, <1>10, <1>11, <1>12,
     <1>13, <1>14, <1>15, <1>16, <1>17, <1>18, <1>19, <1>20, <1>21, <1>22,
     <1>23 DEF Next, Reconcile, ReconcileFails, Progress

(* The initial state has the types.                                        *)
LEMMA TypeInit == Init => TypeInv
<1> SUFFICES ASSUME Init PROVE TypeInv
  OBVIOUS
<1>1. Unset \in Cond
  BY DEF Unset, Cond, Reasons
<1>2. stored \in Status /\ seen \in Status
  BY <1>1 DEF Init, Status, Phases
<1>3. /\ DOMAIN stored.conds = Conditions /\ DOMAIN seen.conds = Conditions
      /\ stored.phase \in Phases /\ seen.phase \in Phases
  BY <1>2 DEF Status
<1>4. /\ pod \in [Node -> [image : Image \cup {NoImage},
                           state : {"none", "pending", "running", "ready"},
                           restarts : 0 .. RestartThreshold]]
      /\ status \in [Node -> [pod : {"none", "pending", "ready"},
                              current : Image \cup {NoImage},
                              update : Image \cup {NoImage}]]
      /\ job \in [image : Image \cup {NoImage},
                  state : {"none", "active", "completed", "failed"}]
  <2>1. 0 \in 0 .. RestartThreshold
    BY RestartAssumption
  <2>2. NoPod \in PodType
    BY <2>1 DEF NoPod, PodType
  <2>3. NoJob \in [image : Image \cup {NoImage},
                  state : {"none", "active", "completed", "failed"}]
    BY DEF NoJob
  <2>4. NoStatus \in StatusType
    BY DEF NoStatus, StatusType
  <2> QED BY <2>2, <2>3, <2>4 DEF Init, PodType, StatusType
<1>5. image \in Image /\ trouble \in 0 .. MaxTrouble
  <2>1. 1 \in Image
    BY SizeAssumption DEF Image
  <2>2. 0 \in 0 .. MaxTrouble
    BY TroubleAssumption
  <2> QED BY <2>1, <2>2 DEF Init
<1>6. DOMAIN facts = Kinds
  BY NoFactsType DEF Init
<1> QED
  BY <1>2, <1>3, <1>4, <1>5, <1>6 DEF Init, TypeInv, TypeOK, Steps

-----------------------------------------------------------------------------
(* The inductive invariant. *)

(* A pod has a StatefulSet.                                                *)
PodsInOrder == \A n \in Node : HasPod(n) => sts[n] # NoImage

(* The Job completes when every node exists, and no listing says that it   *)
(* has completed before it has.                                            *)
Formed ==
    /\ job.state = "completed" => Missing = {}
    /\ \A j \in facts.jobs : j.completed => job.state = "completed"
    /\ RunningMeansFormed

(* The steps after a list has been made.                                   *)
AfterStatefulSets == {"jobs", "pods", "pvcs", "services", "ingresses", "secrets",
                      "patch"}
AfterJobs == {"pods", "pvcs", "services", "ingresses", "secrets", "patch"}
AfterServices == {"ingresses", "secrets", "patch"}
AfterIngresses == {"secrets", "patch"}

(* A reconcile that sees clearly works on the stored status.               *)
ClearSight == ~blind /\ pc # "idle" => seen = stored

(* As long as nothing has woken the operator up again, a list that decides *)
(* a condition still says what it would say now.                           *)
ListsFresh ==
    ~blind /\ ~queued =>
       /\ pc \in AfterStatefulSets => facts.statefulSets = collectStatefulSets
       /\ pc \in AfterJobs => facts.jobs = collectJobs
       /\ pc \in AfterServices => facts.services = collectServices
       /\ pc \in AfterIngresses => facts.ingresses = collectIngresses

(* The stored status when there is nothing left to do.                     *)
StatusFresh ==
    Quiet =>
       /\ stored.conds["BootstrapCompleted"].status = evalBootstrap(Now).status
       /\ stored.conds["Progressing"].status = evalProgressingCase(Now).status
       /\ external => stored.conds["ExternalAccessReady"].status =
                         evalExternalAccessReady(Now).status

Inv ==
    /\ TypeInv
    /\ PodsInOrder
    /\ Formed
    /\ ClearSight
    /\ ListsFresh
    /\ StatusFresh

(* The patch of a reconcile that saw clearly and was not overtaken stores  *)
(* what is true now.                                                       *)
LEMMA PatchIsFresh ==
    ASSUME Inv, pc = "patch", ~blind, ~queued
    PROVE  /\ Merged.conds["BootstrapCompleted"].status = evalBootstrap(Now).status
           /\ Merged.conds["Progressing"].status = evalProgressingCase(Now).status
           /\ external => Merged.conds["ExternalAccessReady"].status =
                             evalExternalAccessReady(Now).status
<1> DEFINE e == Evaluate(seen.conds, external, facts)
<1>1. seen = stored /\ seen.conds \in [Conditions -> Cond] /\ external \in BOOLEAN
  BY DEF Inv, ClearSight, TypeInv, Status, external
<1>2. Merged.conds = e
  BY <1>1 DEF Merged
<1>3. /\ facts.statefulSets = Now.statefulSets /\ facts.jobs = Now.jobs
      /\ facts.services = Now.services /\ facts.ingresses = Now.ingresses
  BY DEF Inv, ListsFresh, AfterStatefulSets, AfterJobs, AfterServices,
         AfterIngresses, Now
<1>4. /\ evalBootstrap(facts) = evalBootstrap(Now)
      /\ evalProgressingCase(facts) = evalProgressingCase(Now)
      /\ evalExternalAccessReady(facts) = evalExternalAccessReady(Now)
  BY <1>3 DEF evalBootstrap, evalProgressingCase, evalExternalAccessReady
<1> HIDE DEF e
<1>5. /\ e["BootstrapCompleted"] = evalBootstrap(facts)
      /\ e["Progressing"] = evalProgressingCase(facts)
      /\ external => e["ExternalAccessReady"] = evalExternalAccessReady(facts)
  BY <1>1, EvaluateFacts DEF e
<1> QED BY <1>2, <1>4, <1>5

(* A patch that makes the phase Running has listed a completed Job.        *)
LEMMA MergedRunning ==
    ASSUME Inv, Merged.phase = "Running"
    PROVE  job.state = "completed" /\ Missing = {}
<1> DEFINE e == Evaluate(seen.conds, external, facts)
<1>1. seen.conds \in [Conditions -> Cond] /\ external \in BOOLEAN
  BY DEF Inv, TypeInv, Status, external
<1>2. Merged.phase \in {stored.phase, UpdatePhaseFromConditions(e)}
  BY DEF Merged
<1>3. CASE stored.phase = "Running"
  BY <1>3 DEF Inv, Formed, RunningMeansFormed
<1>4. CASE UpdatePhaseFromConditions(e) = "Running"
  <2>1. IsTrue(e["Ready"])
    BY <1>4, PhaseFacts
  <2>2. IsTrue(evalBootstrap(facts))
    BY <1>1, <2>1, EvaluateFacts
  <2>3. \E j \in facts.jobs : j.completed
    BY <2>2 DEF evalBootstrap, IsTrue, False
  <2> QED BY <2>3 DEF Inv, Formed
<1> QED BY <1>2, <1>3, <1>4

(* The end of a reconcile: with an error it is repeated, without one it    *)
(* has stored what is true now.                                            *)
LEMMA EndKeeps ==
    ASSUME Inv, TypeInv', UNCHANGED <<user, objects, blind>>,
           pc' = "idle", facts' = NoFacts, stored' \in {stored, Merged},
           queued' \/ (pc = "patch" /\ stored' = Merged /\ ~queued)
    PROVE  Inv'
<1>1. UNCHANGED <<access, secrets, sts, status, pod, bound, svc, ingress, job>>
  BY DEF user, objects, nodes
<1>2. PodsInOrder'
  BY <1>1 DEF Inv, PodsInOrder, HasPod
<1>3. facts'.jobs = {}
  BY DEF NoFacts
<1>4. Missing' = Missing
  BY <1>1 DEF Missing
<1>5. RunningMeansFormed'
  BY <1>1, <1>4, MergedRunning DEF Inv, Formed, RunningMeansFormed
<1>6. Formed'
  BY <1>1, <1>3, <1>4, <1>5 DEF Inv, Formed
<1>8. ClearSight' /\ ListsFresh'
  BY DEF ClearSight, ListsFresh, AfterStatefulSets, AfterJobs, AfterServices,
         AfterIngresses
<1>9. StatusFresh'
  <2> SUFFICES ASSUME ~queued', ~blind' PROVE StatusFresh'
    BY DEF StatusFresh, Quiet
  <2>1. pc = "patch" /\ stored' = Merged /\ ~queued /\ ~blind
    OBVIOUS
  <2>2. Now' = Now /\ external' = external
    BY <1>1, <1>4 DEF HasPod, Now, external, collectStatefulSets, collectJobs,
       collectPodsAndPVCRefs, collectServices, collectIngresses, collectSecrets
  <2>3. /\ evalBootstrap(Now)' = evalBootstrap(Now)
        /\ evalProgressingCase(Now)' = evalProgressingCase(Now)
        /\ evalExternalAccessReady(Now)' = evalExternalAccessReady(Now)
    BY <2>2 DEF evalBootstrap, evalProgressingCase, evalExternalAccessReady
  <2>4. /\ Merged.conds["BootstrapCompleted"].status = evalBootstrap(Now).status
        /\ Merged.conds["Progressing"].status = evalProgressingCase(Now).status
        /\ external => Merged.conds["ExternalAccessReady"].status =
                          evalExternalAccessReady(Now).status
    BY <2>1, PatchIsFresh
  <2> QED BY <2>1, <2>2, <2>3, <2>4 DEF StatusFresh
<1> QED BY <1>2, <1>6, <1>8, <1>9 DEF Inv

(* The part of a reconcile before the lists: it may change objects, but no *)
(* pod, and never takes a StatefulSet or a completed Job away.             *)
LEMMA ApplyKeeps ==
    ASSUME Inv, TypeInv',
           Get \/ ApplyIngress \/ ApplyJob \/ ApplyHooks \/ Run \/ RunRefused
              \/ RunFails
    PROVE  Inv'
<1>1. /\ UNCHANGED <<secrets, pod, bound, stored, facts>>
      /\ pc' \in {"ingress", "bootstrapper", "hooks", "run", "statefulSets"}
  BY DEF Get, ApplyIngress, ApplyJob, ApplyHooks, Run, RunRefused, RunFails, applyNode, Go,
         user, objects, nodes
<1>2. \A n \in Node : sts[n] # NoImage => sts'[n] # NoImage
  <2>1. CASE Run
    <3>1. want \in Image /\ sts \in [Node -> Image \cup {NoImage}]
      BY <2>1 DEF Run, Go, Inv, TypeInv, TypeOK
    <3>2. want # NoImage
      BY <3>1 DEF Image, NoImage
    <3> QED BY <2>1, <3>1, <3>2 DEF Run, applyNode, nodes
  <2>2. CASE Get \/ ApplyIngress \/ ApplyJob \/ ApplyHooks \/ RunRefused \/ RunFails
    BY <2>2 DEF Get, ApplyIngress, ApplyJob, ApplyHooks, RunRefused, RunFails, objects,
                nodes
  <2> QED BY <2>1, <2>2
<1>3. job'.state = "completed" <=> job.state = "completed"
  <2>1. CASE ApplyJob
    <3>1. NoJob.state # "completed" /\ BuildJob.state # "completed"
      BY DEF NoJob, BuildJob
    <3> QED BY <2>1, <3>1 DEF ApplyJob
  <2>2. CASE Get \/ ApplyIngress \/ ApplyHooks \/ Run \/ RunRefused \/ RunFails
    BY <2>2 DEF Get, ApplyIngress, ApplyHooks, Run, RunRefused, RunFails, objects
  <2> QED BY <2>1, <2>2
<1>4. PodsInOrder'
  BY <1>1, <1>2 DEF Inv, PodsInOrder, HasPod
<1>5. Formed'
  BY <1>1, <1>2, <1>3 DEF Inv, Formed, RunningMeansFormed, Missing
<1>7. ~blind' => seen' = stored'
  <2>1. CASE Get
    BY <2>1 DEF Get
  <2>2. CASE ApplyIngress \/ ApplyJob \/ ApplyHooks \/ Run \/ RunRefused \/ RunFails
    BY <2>2 DEF ApplyIngress, ApplyJob, ApplyHooks, Run, RunRefused, RunFails, Go, Inv,
                ClearSight
  <2> QED BY <2>1, <2>2
<1>8. ClearSight' /\ ListsFresh' /\ StatusFresh'
  BY <1>1, <1>7 DEF ClearSight, ListsFresh, StatusFresh, Quiet, AfterStatefulSets,
     AfterJobs, AfterServices, AfterIngresses
<1> QED BY <1>4, <1>5, <1>8 DEF Inv

(* What a list reads of the facts as they were.                            *)
LEMMA CollectCases ==
    ASSUME Collect
    PROVE  /\ UNCHANGED <<user, objects, stored, seen, queued, want, blind, trouble>>
           /\ \/ /\ Go("statefulSets", "jobs")
                 /\ facts' = [facts EXCEPT !["statefulSets"] = collectStatefulSets]
              \/ /\ Go("jobs", "pods")
                 /\ facts' = [facts EXCEPT !["jobs"] = collectJobs]
              \/ /\ Go("pods", "pvcs")
                 /\ facts' = [facts EXCEPT !["pods"] = collectPodsAndPVCRefs]
              \/ /\ Go("pvcs", "services")
                 /\ facts' = [facts EXCEPT !["pvcs"] = collectPVCs]
              \/ /\ Go("services", "ingresses")
                 /\ facts' = [facts EXCEPT !["services"] = collectServices]
              \/ /\ Go("ingresses", "secrets")
                 /\ facts' = [facts EXCEPT !["ingresses"] = collectIngresses]
              \/ /\ Go("secrets", "patch")
                 /\ facts' = [facts EXCEPT !["secrets"] = collectSecrets]
<1>1. PICK i \in DOMAIN Lists :
         /\ Go(Lists[i], IF i < Len(Lists) THEN Lists[i + 1] ELSE "patch")
         /\ facts' = [facts EXCEPT ![Lists[i]] = Listed(Lists[i])]
         /\ UNCHANGED <<user, objects, stored, seen, queued, want, blind, trouble>>
  BY DEF Collect
<1>2. /\ Listed("statefulSets") = collectStatefulSets
      /\ Listed("jobs") = collectJobs
      /\ Listed("pods") = collectPodsAndPVCRefs
      /\ Listed("pvcs") = collectPVCs
      /\ Listed("services") = collectServices
      /\ Listed("ingresses") = collectIngresses
      /\ Listed("secrets") = collectSecrets
  BY DEF Listed
<1>3. CASE i = 1
  <2>1. Lists[i] = "statefulSets" /\ i < Len(Lists) /\ i + 1 = 2 /\ Lists[i + 1] = "jobs"
    BY <1>3, KindNames
  <2> QED BY <1>1, <1>2, <2>1
<1>4. CASE i = 2
  <2>1. Lists[i] = "jobs" /\ i < Len(Lists) /\ i + 1 = 3 /\ Lists[i + 1] = "pods"
    BY <1>4, KindNames
  <2> QED BY <1>1, <1>2, <2>1
<1>5. CASE i = 3
  <2>1. Lists[i] = "pods" /\ i < Len(Lists) /\ i + 1 = 4 /\ Lists[i + 1] = "pvcs"
    BY <1>5, KindNames
  <2> QED BY <1>1, <1>2, <2>1
<1>6. CASE i = 4
  <2>1. Lists[i] = "pvcs" /\ i < Len(Lists) /\ i + 1 = 5 /\ Lists[i + 1] = "services"
    BY <1>6, KindNames
  <2> QED BY <1>1, <1>2, <2>1
<1>7. CASE i = 5
  <2>1. Lists[i] = "services" /\ i < Len(Lists) /\ i + 1 = 6 /\ Lists[i + 1] = "ingresses"
    BY <1>7, KindNames
  <2> QED BY <1>1, <1>2, <2>1
<1>8. CASE i = 6
  <2>1. Lists[i] = "ingresses" /\ i < Len(Lists) /\ i + 1 = 7 /\ Lists[i + 1] = "secrets"
    BY <1>8, KindNames
  <2> QED BY <1>1, <1>2, <2>1
<1>9. CASE i = 7
  <2>1. Lists[i] = "secrets" /\ ~(i < Len(Lists))
    BY <1>9, KindNames
  <2> QED BY <1>1, <1>2, <2>1
<1> QED BY <1>1, <1>3, <1>4, <1>5, <1>6, <1>7, <1>8, <1>9, KindNames

(* A list of one kind leaves the others alone.                             *)
LEMMA CollectFrame ==
    ASSUME TypeInv, NEW k \in Kinds, NEW v, facts' = [facts EXCEPT ![k] = v]
    PROVE  /\ facts'[k] = v
           /\ \A j \in Kinds : j # k => facts'[j] = facts[j]
BY DEF TypeInv, TypeOK

(* Every list is made of what is there, and the lists already made stay.   *)
LEMMA CollectKeeps ==
    ASSUME Inv, TypeInv', Collect
    PROVE  Inv'
<1>0. /\ UNCHANGED <<access, secrets, sts, status, pod, bound, svc, ingress, job>>
      /\ UNCHANGED <<stored, seen, queued, blind>>
  BY CollectCases DEF user, objects, nodes
<1>1. PodsInOrder'
  BY <1>0 DEF Inv, PodsInOrder, HasPod
<1>2. Missing' = Missing
  BY <1>0 DEF Missing
<1>3. RunningMeansFormed'
  BY <1>0, <1>2 DEF Inv, Formed, RunningMeansFormed
<1>4. /\ collectStatefulSets' = collectStatefulSets
      /\ collectJobs' = collectJobs
      /\ collectServices' = collectServices
      /\ collectIngresses' = collectIngresses
  BY <1>0, <1>2 DEF collectStatefulSets, collectJobs, collectServices, collectIngresses
<1>5. StatusFresh' /\ ClearSight'
  BY <1>0, CollectCases DEF Inv, Go, StatusFresh, Quiet, ClearSight
<1>6. ASSUME facts'.jobs = facts.jobs PROVE Formed'
  BY <1>0, <1>2, <1>3, <1>6 DEF Inv, Formed
<1> USE DEF AfterStatefulSets, AfterJobs, AfterServices, AfterIngresses
<1>9. TypeInv /\ ListsFresh
  BY DEF Inv
<1>10. CASE /\ Go("statefulSets", "jobs")
            /\ facts' = [facts EXCEPT !["statefulSets"] = collectStatefulSets]
  <2>1. facts'.statefulSets = collectStatefulSets /\ facts'.jobs = facts.jobs
    BY <1>9, <1>10, CollectFrame, KindNames
  <2>2. ListsFresh'
    BY <1>0, <1>4, <1>9, <1>10, <2>1 DEF Go, ListsFresh
  <2> QED BY <1>1, <1>5, <1>6, <2>1, <2>2 DEF Inv
<1>11. CASE /\ Go("jobs", "pods")
            /\ facts' = [facts EXCEPT !["jobs"] = collectJobs]
  <2>1. facts'.jobs = collectJobs /\ facts'.statefulSets = facts.statefulSets
    BY <1>9, <1>11, CollectFrame, KindNames
  <2>2. ListsFresh'
    BY <1>0, <1>4, <1>9, <1>11, <2>1 DEF Go, ListsFresh
  <2>3. \A j \in collectJobs : j.completed => job.state = "completed"
    <3> DEFINE listed == [completed |-> job.state = "completed",
                          active |-> IF job.state = "active" THEN 1 ELSE 0,
                          failed |-> IF job.state = "failed" THEN 1 ELSE 0]
    <3>1. listed.completed <=> job.state = "completed"
      OBVIOUS
    <3>2. collectJobs \subseteq {listed}
      BY DEF collectJobs
    <3> HIDE DEF listed
    <3> QED BY <3>1, <3>2
  <2>4. Formed'
    BY <1>0, <1>2, <1>3, <2>1, <2>3 DEF Inv, Formed
  <2> QED BY <1>1, <1>5, <2>2, <2>4 DEF Inv
<1>12. CASE \/ /\ Go("pods", "pvcs")
               /\ facts' = [facts EXCEPT !["pods"] = collectPodsAndPVCRefs]
            \/ /\ Go("pvcs", "services")
               /\ facts' = [facts EXCEPT !["pvcs"] = collectPVCs]
  <2>1. facts'.statefulSets = facts.statefulSets /\ facts'.jobs = facts.jobs
    BY <1>9, <1>12, CollectFrame, KindNames
  <2>2. ListsFresh'
    BY <1>0, <1>4, <1>9, <1>12, <2>1 DEF Go, ListsFresh
  <2> QED BY <1>1, <1>5, <1>6, <2>1, <2>2 DEF Inv
<1>13. CASE \/ /\ Go("services", "ingresses")
               /\ facts' = [facts EXCEPT !["services"] = collectServices]
            \/ /\ Go("ingresses", "secrets")
               /\ facts' = [facts EXCEPT !["ingresses"] = collectIngresses]
  <2>1. /\ facts'.statefulSets = facts.statefulSets /\ facts'.jobs = facts.jobs
        /\ pc = "services" => facts'.services = collectServices
        /\ pc = "ingresses" => /\ facts'.services = facts.services
                               /\ facts'.ingresses = collectIngresses
    BY <1>9, <1>13, CollectFrame, KindNames DEF Go
  <2>2. ListsFresh'
    BY <1>0, <1>4, <1>9, <1>13, <2>1 DEF Go, ListsFresh
  <2> QED BY <1>1, <1>5, <1>6, <2>1, <2>2 DEF Inv
<1>14. CASE /\ Go("secrets", "patch")
            /\ facts' = [facts EXCEPT !["secrets"] = collectSecrets]
  <2>1. /\ facts'.statefulSets = facts.statefulSets /\ facts'.jobs = facts.jobs
        /\ facts'.services = facts.services /\ facts'.ingresses = facts.ingresses
    BY <1>9, <1>14, CollectFrame, KindNames
  <2>2. ListsFresh'
    BY <1>0, <1>4, <1>9, <1>14, <2>1 DEF Go, ListsFresh
  <2> QED BY <1>1, <1>5, <1>6, <2>1, <2>2 DEF Inv
<1> QED
  BY <1>10, <1>11, <1>12, <1>13, <1>14, CollectCases

(* A listing error blinds the reconcile, and leaves the facts as they are. *)
LEMMA CollectFailsKeeps ==
    ASSUME Inv, TypeInv', CollectFails
    PROVE  Inv'
<1>1. /\ UNCHANGED <<secrets, sts, pod, bound, job, stored, facts>>
      /\ blind'
  BY DEF CollectFails, user, objects, nodes
<1>2. PodsInOrder'
  BY <1>1 DEF Inv, PodsInOrder, HasPod
<1>3. Formed'
  BY <1>1 DEF Inv, Formed, RunningMeansFormed, Missing
<1>4. ClearSight' /\ ListsFresh' /\ StatusFresh'
  BY <1>1 DEF ClearSight, ListsFresh, StatusFresh, Quiet
<1> QED BY <1>2, <1>3, <1>4 DEF Inv

(* What the world may do to a reconcile: whatever an owned object shows    *)
(* wakes the operator up.                                                  *)
LEMMA WorldKeeps ==
    ASSUME Inv, TypeInv', PodsInOrder',
           UNCHANGED <<stored, seen, pc, facts, blind>>,
           Missing' = Missing,
           job.state = "completed" => job'.state = "completed",
           job'.state = "completed" => job.state = "completed" \/ Missing = {},
           queued' \/ UNCHANGED <<queued, access, sts, status, svc, ingress, job>>
    PROVE  Inv'
<1>1. Formed'
  BY DEF Inv, Formed, RunningMeansFormed
<1>2. ClearSight'
  BY DEF Inv, ClearSight
<1>3. CASE queued'
  BY <1>1, <1>2, <1>3 DEF Inv, ListsFresh, StatusFresh, Quiet
<1>4. CASE UNCHANGED <<queued, access, sts, status, svc, ingress, job>>
  <2>1. /\ collectStatefulSets' = collectStatefulSets
        /\ collectJobs' = collectJobs
        /\ collectServices' = collectServices
        /\ collectIngresses' = collectIngresses
    BY <1>4 DEF collectStatefulSets, collectJobs, collectServices, collectIngresses,
       Missing
  <2>2. ListsFresh'
    BY <1>4, <2>1 DEF Inv, ListsFresh
  <2>3. /\ evalBootstrap(Now)' = evalBootstrap(Now)
        /\ evalProgressingCase(Now)' = evalProgressingCase(Now)
        /\ evalExternalAccessReady(Now)' = evalExternalAccessReady(Now)
    BY <2>1 DEF Now, evalBootstrap, evalProgressingCase, evalExternalAccessReady
  <2>4. StatusFresh'
    BY <1>4, <2>3 DEF Inv, StatusFresh, Quiet, external
  <2> QED BY <1>1, <1>2, <2>2, <2>4 DEF Inv
<1> QED BY <1>3, <1>4

(* A pod changes, without an event: no owned object shows it yet.          *)
LEMMA PodsKeep ==
    ASSUME Inv, TypeInv', NEW n \in Node, NEW p, Becomes(n, p),
           p.state # "none" => sts[n] # NoImage
    PROVE  Inv'
<1>1. /\ UNCHANGED <<stored, seen, queued, pc, facts, blind, access, sts, status, svc,
                     ingress, job>>
      /\ pod' = [pod EXCEPT ![n] = p]
  BY DEF Becomes, user, local
<1>2. pod \in [Node -> PodType]
  BY DEF Inv, TypeInv, TypeOK, PodType
<1>3. pod'[n] = p /\ \A m \in Node : m # n => pod'[m] = pod[m]
  BY <1>1, <1>2
<1>4. PodsInOrder'
  BY <1>1, <1>3 DEF Inv, PodsInOrder, HasPod
<1>5. Missing' = Missing
  BY <1>1 DEF Missing
<1> QED BY <1>1, <1>4, <1>5, WorldKeeps

(* Everything that is not a step of the operator.                          *)
LEMMA OthersKeep ==
    ASSUME Inv, TypeInv',
           \/ RaiseImage \/ AddSecret \/ RemoveSecret \/ Progress \/ FailJob
           \/ \E n \in Node : RestartPod(n)
           \/ Resync
           \/ UNCHANGED vars
    PROVE  Inv'
<1>w. /\ pod \in [Node -> PodType] /\ sts \in [Node -> Image \cup {NoImage}]
      /\ PodsInOrder /\ Formed
  BY DEF Inv, TypeInv, TypeOK, PodType
<1>1. CASE RaiseImage \/ Resync
  <2>1. /\ UNCHANGED <<stored, seen, pc, facts, blind, secrets, sts, pod, bound, job>>
        /\ queued'
    BY <1>1 DEF RaiseImage, Resync, Wake, user, objects, nodes, local
  <2>2. PodsInOrder' /\ Missing' = Missing
    BY <1>w, <2>1 DEF PodsInOrder, HasPod, Missing
  <2> QED BY <2>1, <2>2, WorldKeeps
<1>2. CASE AddSecret \/ RemoveSecret \/ UNCHANGED vars
  <2>1. UNCHANGED <<stored, seen, pc, facts, blind, queued, access, sts, status, pod, svc,
                    ingress, job>>
    BY <1>2 DEF AddSecret, RemoveSecret, vars, objects, nodes, local
  <2>2. PodsInOrder' /\ Missing' = Missing
    BY <1>w, <2>1 DEF PodsInOrder, HasPod, Missing
  <2> QED BY <2>1, <2>2, WorldKeeps
<1>3. ASSUME NEW n \in Node,
             CreatePod(n) \/ DeletePod(n) \/ StartPod(n) \/ ReadyPod(n) \/ RestartPod(n)
      PROVE  Inv'
  <2>1. PICK p : Becomes(n, p) /\ (p.state # "none" => sts[n] # NoImage)
    <3>1. CASE CreatePod(n)
      BY <3>1 DEF CreatePod
    <3>2. CASE DeletePod(n)
      BY <3>2 DEF DeletePod, NoPod
    <3>3. CASE StartPod(n) \/ ReadyPod(n) \/ RestartPod(n)
      <4>1. sts[n] # NoImage
        BY <1>w, <3>3 DEF StartPod, ReadyPod, RestartPod, PodsInOrder, HasPod
      <4> QED BY <3>3, <4>1 DEF StartPod, ReadyPod, RestartPod
    <3> QED BY <1>3, <3>1, <3>2, <3>3
  <2> QED BY <2>1, PodsKeep
<1>4. ASSUME NEW n \in Node, BindPVC(n)
      PROVE  Inv'
  <2>1. UNCHANGED <<stored, seen, pc, facts, blind, queued, access, sts, status, pod, svc,
                    ingress, job>>
    BY <1>4 DEF BindPVC, user, local
  <2>2. PodsInOrder' /\ Missing' = Missing
    BY <1>w, <2>1 DEF PodsInOrder, HasPod, Missing
  <2> QED BY <2>1, <2>2, WorldKeeps
<1>5. CASE AllocateIngress \/ \E n \in Node : AllocateService(n) \/ RecordStatus(n)
  <2>1. /\ UNCHANGED <<stored, seen, pc, facts, blind, sts, pod, job>>
        /\ queued'
    BY <1>5 DEF AllocateIngress, AllocateService, RecordStatus, Wake, user, nodes, local
  <2>2. PodsInOrder' /\ Missing' = Missing
    BY <1>w, <2>1 DEF PodsInOrder, HasPod, Missing
  <2> QED BY <2>1, <2>2, WorldKeeps
<1>6. CASE CompleteJob \/ FailJob
  <2>1. /\ UNCHANGED <<stored, seen, pc, facts, blind, secrets, sts, pod, bound>>
        /\ queued' /\ job.state = "active"
    BY <1>6 DEF CompleteJob, FailJob, Wake, user, nodes, local
  <2>2. PodsInOrder' /\ Missing' = Missing
    BY <1>w, <2>1 DEF PodsInOrder, HasPod, Missing
  <2>3. job'.state = "completed" => Missing = {}
    <3>1. CASE CompleteJob
      BY <1>w, <3>1 DEF CompleteJob, PodsInOrder, HasPod, Missing
    <3>2. CASE FailJob
      <4>1. job \in [image : Image \cup {NoImage},
                     state : {"none", "active", "completed", "failed"}]
        BY DEF Inv, TypeInv, TypeOK
      <4> QED BY <3>2, <4>1 DEF FailJob
    <3> QED BY <1>6, <3>1, <3>2
  <2> QED BY <2>1, <2>2, <2>3, WorldKeeps
<1> QED
  BY <1>1, <1>2, <1>3, <1>4, <1>5, <1>6 DEF Progress

(* Every step keeps the invariant.                                         *)
LEMMA InvStep ==
    ASSUME Inv, [Next]_vars
    PROVE  Inv'
<1>1. TypeInv'
  BY TypeStep DEF Inv
<1>2. CASE ApplyJobRejected \/ ExecutePerClusterFails \/ Crash
  BY <1>1, <1>2, EndKeeps
     DEF ApplyJobRejected, ExecutePerClusterFails, Crash, EndReconcile, Wake
<1>3. CASE Patch \/ PatchUnseen \/ PatchFails
  <2>1. queued \in BOOLEAN
    BY DEF Inv, TypeInv, TypeOK
  <2>2. queued' \/ (pc = "patch" /\ stored' = Merged /\ ~queued)
    BY <1>3, <2>1 DEF Patch, PatchUnseen, PatchFails, EndReconcile, Wake, Go
  <2> QED
    BY <1>1, <1>3, <2>2, EndKeeps DEF Patch, PatchUnseen, PatchFails, EndReconcile, Go
<1> QED
  BY <1>1, <1>2, <1>3, ApplyKeeps, CollectKeeps, CollectFailsKeeps, OthersKeep
     DEF Next, Reconcile, ReconcileFails

(* The invariant holds before anything exists: the cluster is queued.      *)
LEMMA InvInit == Init => Inv
<1> SUFFICES ASSUME Init PROVE Inv
  OBVIOUS
<1>1. TypeInv
  BY TypeInit
<1>2. /\ \A n \in Node : pod[n].state = "none"
      /\ job.state = "none" /\ stored.phase = ""
      /\ facts.jobs = {}
      /\ pc = "idle" /\ queued
  BY DEF Init, NoPod, NoJob, NoFacts
<1>3. PodsInOrder /\ Formed
  BY <1>2 DEF PodsInOrder, HasPod, Formed, RunningMeansFormed
<1>4. ClearSight /\ ListsFresh /\ StatusFresh
  BY <1>2 DEF ClearSight, ListsFresh, StatusFresh, Quiet
<1> QED BY <1>1, <1>3, <1>4 DEF Inv

-----------------------------------------------------------------------------
(* The theorems. *)

(* The state of the cluster, of the reconcile and of the status has the    *)
(* expected types in every behaviour.                                      *)
THEOREM TypeCorrect == Spec => []TypeOK
<1>1. TypeInv /\ [Next]_vars => TypeInv'
  BY TypeStep
<1> QED BY TypeInit, <1>1, PTL DEF Spec, TypeInv

(* Whatever is listed late, fails, or is read from an old cache, the phase *)
(* is not Running before the Job has formed the cluster from all nodes.    *)
THEOREM RunningIsFormed == Spec => []RunningMeansFormed
<1>1. Inv /\ [Next]_vars => Inv'
  BY InvStep
<1>2. Inv => RunningMeansFormed
  BY DEF Inv, Formed
<1> QED BY InvInit, <1>1, <1>2, PTL DEF Spec

(* No wake-up by an owned object is lost, with any number of nodes: when   *)
(* the operator has nothing left to do, the conditions that rest on        *)
(* StatefulSets, Jobs, Services and Ingresses are what a new reconcile     *)
(* would find, whatever the pods, PVCs and secrets do unseen.              *)
THEOREM NoLostWakeup == Spec => []StatusIsAccurate
<1>1. Inv /\ [Next]_vars => Inv'
  BY InvStep
<1>2. Inv => StatusIsAccurate
  <2> SUFFICES ASSUME Inv, Quiet
               PROVE  \A c \in OwnedConditions : Accurate(c)
    BY DEF StatusIsAccurate
  <2> DEFINE e == Evaluate(stored.conds, external, Now)
  <2>1. stored.conds \in [Conditions -> Cond] /\ external \in BOOLEAN
    BY DEF Inv, TypeInv, Status, external
  <2>2. /\ e["BootstrapCompleted"] = evalBootstrap(Now)
        /\ e["Progressing"] = evalProgressingCase(Now)
        /\ e["ExternalAccessReady"] = IF external THEN evalExternalAccessReady(Now)
                                      ELSE stored.conds["ExternalAccessReady"]
    BY <2>1, EvaluateFacts
  <2> HIDE DEF e
  <2>3. \A c \in OwnedConditions : stored.conds[c].status = e[c].status
    BY <2>2 DEF Inv, StatusFresh, OwnedConditions
  <2> QED BY <2>3 DEF Accurate, e
<1> QED BY InvInit, <1>1, <1>2, PTL DEF Spec

=============================================================================
