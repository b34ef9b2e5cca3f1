----------------------------- MODULE Manifests -----------------------------
(***************************************************************************)
(* The builders of pkg/resource: what the spec of a cluster (see Admission *)
(* for its fields) turns into. Names, ports, labels and the paths inside   *)
(* the containers are fixed and left out unless something can collide with *)
(* them; what varies is kept: image, volumes and their sources, mounts,    *)
(* volume claims, environment, the kind of Service, the Ingress, the Job.  *)
(***************************************************************************)
EXTENDS Admission, FiniteSets

PVC(name) == [name |-> name, source |-> "persistentVolumeClaim", of |-> name]
SecretVolume(name, s) == [name |-> name, source |-> "secret", of |-> s]
ConfigMapVolume(name) == [name |-> name, source |-> "configMap", of |-> name]

Mount(name, path) == [name |-> name, path |-> path]

-----------------------------------------------------------------------------
(* statefulset.go, volume.go, container.go and common/env.go *)

certSecret(c, node) ==
    IF c.mode = "LetsEncrypt" THEN node.cert ELSE c.clusterCert

(* The webhook has seen to it that there is one source.                    *)
buildAdditionalVolumes(vols) ==
    [i \in DOMAIN vols |->
       [name |-> vols[i].name, of |-> vols[i].name,
        source |-> CHOOSE s \in vols[i].sources : TRUE]]

buildVolumes(c, node) ==
    <<PVC("ravendb-data"),
      SecretVolume("ravendb-cert", certSecret(c, node)),
      SecretVolume("ravendb-license", c.license),
      ConfigMapVolume("ravendb-cert-hook")>>
    \o (IF c.logs = Unset THEN <<>> ELSE <<PVC("ravendb-logs")>>)
    \o (IF c.audit = Unset THEN <<>> ELSE <<PVC("ravendb-audit")>>)
    \o buildAdditionalVolumes(c.volumes)

(* Mutation: one default for both.                                         *)
LogPathShared(path, default) == IF path = "default" THEN "/logs" ELSE path

(* A log volume is mounted where the spec says, else at its default.       *)
LogPath(path, default) == IF path = "default" THEN default ELSE path

buildVolumeMounts(c) ==
    <<Mount("ravendb-data", "/data"),
      Mount("ravendb-cert", "/certs"),
      Mount("ravendb-license", "/license"),
      Mount("ravendb-cert-hook", "/update-cert.sh"),
      Mount("ravendb-cert-hook", "/get-server-cert.sh")>>
    \o (IF c.logs = Unset THEN <<>>
        ELSE <<Mount("ravendb-logs", LogPath(c.logs, "/logs"))>>)
    \o (IF c.audit = Unset THEN <<>>
        ELSE <<Mount("ravendb-audit", LogPath(c.audit, "/audit"))>>)
    \o [i \in DOMAIN c.volumes |-> Mount(c.volumes[i].name, c.volumes[i].path)]

buildPersistentVolumeClaim(name, size, vac) ==
    [name |-> name, size |-> size, vac |-> vac]

(* The size of the log volumes is not varied.                              *)
BuildPVCs(c) ==
    {buildPersistentVolumeClaim("ravendb-data", c.data, c.vac)}
    \cup {buildPersistentVolumeClaim(name, 1, Unset) :
             name \in {"ravendb-logs" : l \in {c.logs} \ {Unset}}
                   \cup {"ravendb-audit" : l \in {c.audit} \ {Unset}}}

(* The variables every node has, those of the certificate hooks, and in    *)
(* mode LetsEncrypt the email.                                             *)
ReservedEnv(c) ==
    {"common", "hooks"} \cup (IF c.mode = "LetsEncrypt" THEN {"email"} ELSE {})

buildAWSNodeAffinity(c, node) ==
    c.access.type = "aws-nlb" /\ node.tag \in c.access.mapped

BuildStatefulSet(c, node) ==
    [name     |-> node.tag,
     image    |-> c.image,
     volumes  |-> buildVolumes(c, node),
     mounts   |-> buildVolumeMounts(c),
     claims   |-> BuildPVCs(c),
     env      |-> c.env,
     affinity |-> buildAWSNodeAffinity(c, node)]

(* A nil secret reference or email is dereferenced.                        *)
StatefulSetPanics(c, node) ==
    \/ certSecret(c, node) = Unset
    \/ c.mode = "LetsEncrypt" /\ ~c.email

-----------------------------------------------------------------------------
(* service.go and ingress.go *)

(* Mutation: a kind of Service that the spec does not know.                *)
BuildServiceNodePort(c, node) == [type |-> "NodePort", address |-> FALSE]

BuildService(c, node) ==
    IF c.access.type \in {"aws-nlb", "azure-lb"}
    THEN [type |-> "LoadBalancer", address |-> node.tag \in c.access.mapped]
    ELSE [type |-> "ClusterIP", address |-> FALSE]

ServicePanics(c) ==
    c.access.type = "aws-nlb" /\ "aws-nlb" \notin c.access.contexts

(* Hosts of both protocols of a node lead to its Service.                  *)
buildIngressRules(c) ==
    {[host |-> [tag |-> c.nodes[i].tag, scheme |-> s, domain |-> c.domain],
      service |-> c.nodes[i].tag] : i \in DOMAIN c.nodes, s \in {"https", "tcp"}}

BuildIngress(c) ==
    [class |-> c.access.class, rules |-> buildIngressRules(c)]

IngressPanics(c) == "ingress-controller" \notin c.access.contexts

-----------------------------------------------------------------------------
(* job.go *)

(* An absent certificate of the cluster becomes an empty name.             *)
getServerCertSecretName(c) == certSecret(c, c.nodes[1])

buildJobVolumes(c) ==
    <<SecretVolume("ravendb-client-cert", c.client),
      SecretVolume("ravendb-cert", getServerCertSecretName(c))>>
    \o (IF c.caCert = Unset THEN <<>>
        ELSE <<SecretVolume("ravendb-ca-cert", c.caCert)>>)
    \o <<ConfigMapVolume("ravendb-bootstrapper-hook")>>

buildJobEnvVars(c) ==
    [leader |-> c.nodes[1].url, urls |-> PublicUrls(c), tags |-> Tags(c)]

BuildJob(c) ==
    [image |-> c.image, volumes |-> buildJobVolumes(c), env |-> buildJobEnvVars(c)]

JobPanics(c) == c.mode = "LetsEncrypt" /\ c.nodes[1].cert = Unset

-----------------------------------------------------------------------------
(* httpclient.go: the gates' client. Only the fixed file names are tried.  *)

needsCA(c) == c.mode = "None"

loadClientPair(c, sec) == sec[c.client] \in {"canonical", "several"}

loadCAPool(c, sec) == sec[c.caCert] \in {"canonical", "several"}

BuildHTTPSClientFromCluster(c, sec) ==
    loadClientPair(c, sec) /\ (needsCA(c) => c.caCert # Unset /\ loadCAPool(c, sec))

(* The client's secret is read first.                                      *)
HTTPSClientPanics(c, sec) ==
    loadClientPair(c, sec) /\ needsCA(c) /\ c.caCert = Unset

-----------------------------------------------------------------------------
(* evaluator.go: the secrets that CertificatesReady waits for. *)

(* Mutation: the certificate of the cluster is forgotten.                  *)
getExpectedSecretNamesClient(c) == {c.client}

getExpectedSecretNames(c) ==
    {c.client}
    \cup (IF c.mode = "LetsEncrypt"
          THEN {c.nodes[i].cert : i \in DOMAIN c.nodes} \ {Unset}
          ELSE {c.clusterCert, c.caCert} \ {Unset})

=============================================================================
