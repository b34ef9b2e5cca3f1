------------------------------- MODULE Health -------------------------------
(***************************************************************************)
(* The health evaluator (pkg/health/evaluator.go): from the facts that the *)
(* collector has gathered to the conditions of the RavenDBCluster, and from*)
(* the conditions to its phase (api/v1/status_helpers.go).                 *)
(*                                                                         *)
(* Facts are sets: the evaluator asks only whether some or all objects of a*)
(* kind have a property. A condition keeps its status and its reason;      *)
(* messages and transition times are left out.                             *)
(***************************************************************************)
EXTENDS Integers

CONSTANTS
    CertSecrets,        \* what getExpectedSecretNames finds in the spec
    LicenseSecret,      \* spec.licenseSecretRef, "" when there is none
    RestartThreshold    \* restarts from which on a pod counts as degraded

ASSUME RestartAssumption == RestartThreshold \in Nat \ {0}

(* The conditions in the order in which ComputeReady looks at them.        *)
Required == <<"CertificatesReady", "LicensesValid", "StorageReady",
              "NodesHealthy", "BootstrapCompleted", "ExternalAccessReady">>

Conditions == {Required[i] : i \in DOMAIN Required}
                 \cup {"Progressing", "Degraded", "Ready"}
Phases == {"", "Deploying", "Running", "Error"}

True(reason) == [status |-> "True", reason |-> reason]
False(reason) == [status |-> "False", reason |-> reason]
Unset == [status |-> "", reason |-> ""]
Completed == "Completed"

IsTrue(c) == c.status = "True"

NoFacts == [statefulSets |-> {}, jobs |-> {}, pods |-> {}, pvcs |-> {},
            services |-> {}, ingresses |-> {}, secrets |-> {}]

-----------------------------------------------------------------------------
(* One operator per condition. *)

evalStorage(facts) ==
    IF facts.pvcs # {} /\ \A p \in facts.pvcs : p.bound
    THEN True(Completed)
    ELSE False("PVCNotBound")

getMissingSecrets(facts) == CertSecrets \ facts.secrets

evalCertificates(facts) ==
    IF getMissingSecrets(facts) = {}
    THEN True(Completed)
    ELSE False("CertSecretMissing")

evalLicense(facts) ==
    IF LicenseSecret = "" \/ LicenseSecret \in facts.secrets
    THEN True(Completed)
    ELSE False("LicenseSecretMissing")

evalNodesHealthy(facts) ==
    LET Bad(p) == \/ p.phase \in {"Failed", "Unknown"}
                  \/ p.phase = "Running" /\ ~p.ready
    IN  IF facts.pods = {} \/ \E p \in facts.pods : p.phase = "Pending"
        THEN False("WaitingForPods")
        ELSE IF \E p \in facts.pods : Bad(p)
             THEN False("PodsNotReady")
             ELSE True(Completed)

(* An Ingress decides alone; LoadBalancer Services count only without one. *)
evalExternalAccessReady(facts) ==
    LET balanced == {s \in facts.services : s.type = "LoadBalancer"}
        asked == IF facts.ingresses # {} THEN facts.ingresses ELSE balanced
    IN  IF \E x \in asked : x.lbReady THEN True(Completed)
        ELSE False(IF facts.ingresses # {} THEN "IngressPendingAddress"
                                           ELSE "LoadBalancerPending")

evalBootstrap(facts) ==
    IF \E j \in facts.jobs : j.completed
    THEN True(Completed)
    ELSE False(IF \E j \in facts.jobs : j.failed > 0 THEN "BootstrapFailed"
                                                    ELSE "BootstrapJobRunning")

evalProgressingCase(facts) ==
    IF \/ \E s \in facts.statefulSets : s.updating
       \/ \E j \in facts.jobs : j.active > 0
    THEN True("StatefulSetUpdating")
    ELSE False(Completed)

evalDegradingCase(bootstrap, facts) ==
    IF bootstrap = False("BootstrapFailed") THEN True("BootstrapFailed")
    ELSE IF \E p \in facts.pods : p.restarts >= RestartThreshold
         THEN True("PodsNotReady")
         ELSE False(Completed)

-----------------------------------------------------------------------------
(* Roll-up. *)

(* Required conditions that do not hold; the first of them is the reason.  *)
Unsatisfied(conds, external) ==
    {i \in DOMAIN Required :
        /\ Required[i] = "ExternalAccessReady" => external
        /\ ~IsTrue(conds[Required[i]])}

(* Mutation: a cluster that is not bootstrapped may be ready.              *)
ComputeReadyUnbootstrapped(conds, external) ==
    IF Unsatisfied(conds, external) \subseteq {5}
    THEN True(Completed)
    ELSE False("NodesHealthy")

ComputeReady(conds, external) ==
    LET open == Unsatisfied(conds, external)
    IN  IF open = {} THEN True(Completed)
        ELSE False(Required[CHOOSE i \in open : \A j \in open : i <= j])

(* Mutation: a phase that the CRD does not know.                           *)
UpdatePhaseProgressing(conds) ==
    IF IsTrue(conds["Ready"]) THEN "Running"
    ELSE IF IsTrue(conds["Progressing"]) THEN "Progressing"
    ELSE "Deploying"

UpdatePhaseFromConditions(conds) ==
    IF IsTrue(conds["Ready"]) THEN "Running"
    ELSE IF IsTrue(conds["Degraded"]) THEN "Error"
    ELSE "Deploying"

(* ExternalAccessReady is left as it was when no access is configured.     *)
Evaluate(conds, external, facts) ==
    LET bootstrap == evalBootstrap(facts)
        base == [conds EXCEPT
                   !["StorageReady"] = evalStorage(facts),
                   !["CertificatesReady"] = evalCertificates(facts),
                   !["LicensesValid"] = evalLicense(facts),
                   !["NodesHealthy"] = evalNodesHealthy(facts),
                   !["ExternalAccessReady"] =
                        IF external THEN evalExternalAccessReady(facts) ELSE @,
                   !["BootstrapCompleted"] = bootstrap,
                   !["Progressing"] = evalProgressingCase(facts),
                   !["Degraded"] = evalDegradingCase(bootstrap, facts)]
    IN  [base EXCEPT !["Ready"] = ComputeReady(base, external)]

=============================================================================
