---------------------------- MODULE Provisioning ----------------------------
(***************************************************************************)
(* A cluster from its admission to its manifests: the user creates and     *)
(* edits a RavenDBCluster, the webhook (Admission) lets it through or not, *)
(* and reconciles build manifests from it (Manifests) and apply them, one  *)
(* node each, as long as the API server accepts them. The steps inside a   *)
(* reconcile and its failures are those of RollingUpgrade and Reconciler;  *)
(* here a reconcile is one step and what varies is the spec.               *)
(***************************************************************************)
EXTENDS Manifests

CONSTANTS
    Images,        \* the images the user may name
    FirstImages,   \* those among them that other edits start from
    Fields,        \* the parts of the spec that the user edits
    Contents,      \* what a secret may come to hold
    MaxEdits       \* updates and changes of secrets in one behaviour

ASSUME ImagesAssumption ==
    /\ FirstImages \subseteq Images
    /\ \A i \in Images : i.version \in Seq(Nat) /\ Len(i.version) \in {0, 2, 3}
ASSUME FieldsAssumption ==
    Fields \subseteq {"image", "email", "clusterCert", "caCert", "client",
                      "cert", "tag", "immutable", "access", "storage",
                      "volumes", "env"}
ASSUME ContentsAssumption ==
    Contents \subseteq {"absent", "canonical", "renamed", "several", "foreign"}
ASSUME EditsAssumption == MaxEdits \in Nat

Secrets == {"license", "client", "spare", "cluster", "ca", "node"}
Intact == [s \in Secrets |-> "canonical"]

VARIABLES
    spec,          \* the spec of the cluster, or NoCluster
    sec,           \* contents of the secrets
    sts,           \* manifest of each node's StatefulSet
    svc,           \* manifest of each node's Service
    ingress,       \* manifest of the Ingress
    job,           \* manifest of the bootstrapper Job
    bootstrapped,  \* is BootstrapCompleted true?
    last,          \* how the last reconcile of this spec ended
    updates,       \* updates so far
    changes        \* changes of secrets so far

vars == <<spec, sec, sts, svc, ingress, job, bootstrapped, last, updates,
          changes>>
objects == <<sts, svc, ingress, job>>

NoCluster == [absent |-> "cluster"]
NoObject == [absent |-> "object"]

Node == 1 .. 2                    \* positions in spec.nodes
Nodes == DOMAIN spec.nodes

Exists(o) == o # NoObject

-----------------------------------------------------------------------------
(* What the user may write. *)

Url(scheme, tag) ==
    [scheme |-> scheme, tag |-> tag, domain |-> "example", port |-> 443]

NodeOf(tag, cert) ==
    [tag |-> tag, url |-> Url("https", tag), tcp |-> Url("tcp", tag),
     cert |-> cert]

NoAccess == [type |-> "none", contexts |-> {}, class |-> Unset, mapped |-> {},
             passthrough |-> TRUE]

Base(mode, image) ==
    LET own == mode = "None"
    IN  [image |-> image, mode |-> mode, email |-> ~own, domain |-> "example",
         license |-> "license", client |-> "client",
         clusterCert |-> IF own THEN "cluster" ELSE Unset,
         caCert |-> IF own THEN "ca" ELSE Unset,
         nodes |-> LET cert == IF own THEN Unset ELSE "node"
                   IN  <<NodeOf("a", cert), NodeOf("b", cert)>>,
         access |-> NoAccess, data |-> 1, vac |-> Unset,
         logs |-> Unset, audit |-> Unset, volumes |-> <<>>, env |-> {}]

Accesses ==
    {NoAccess,
     [NoAccess EXCEPT !.type = "aws-nlb", !.contexts = {"aws-nlb"},
                      !.mapped = {"a"}],
     [NoAccess EXCEPT !.type = "aws-nlb"]}
    \cup {[NoAccess EXCEPT !.type = "ingress-controller", !.contexts = x,
                           !.class = "nginx"] :
             x \in {{}, {"ingress-controller"}}}

Volume(name, path, sources) ==
    [name |-> name, path |-> path, subPath |-> Unset, sources |-> sources]

(* One part of the spec is changed, well or badly.                         *)
Edited(c, field) ==
    CASE field = "image" -> {[c EXCEPT !.image = i] : i \in Images}
      [] field = "email" -> {[c EXCEPT !.email = ~@]}
      [] field = "clusterCert" ->
            {[c EXCEPT !.clusterCert = s] : s \in {Unset, "cluster"}}
      [] field = "caCert" -> {[c EXCEPT !.caCert = s] : s \in {Unset, "ca"}}
      [] field = "client" -> {[c EXCEPT !.client = s] : s \in {"client", "spare"}}
      [] field = "cert" ->
            {[c EXCEPT !.nodes[1].cert = s] : s \in {Unset, "node"}}
      [] field = "tag" -> {[c EXCEPT !.nodes[1] = NodeOf("A", @.cert)]}
      [] field = "immutable" ->
            {[c EXCEPT !.mode = "None"], [c EXCEPT !.domain = "localhost"],
             [c EXCEPT !.nodes = <<@[1]>>], [c EXCEPT !.nodes = <<@[1], @[1]>>],
             [c EXCEPT !.nodes[1].tcp.port = 0]}
      [] field = "access" -> {[c EXCEPT !.access = a] : a \in Accesses}
      [] field = "storage" ->
            {[c EXCEPT !.data = 2], [c EXCEPT !.vac = "missing"],
             [c EXCEPT !.logs = "default"], [c EXCEPT !.logs = "/audit"],
             [c EXCEPT !.logs = "default", !.audit = "default"],
             [c EXCEPT !.audit = "relative"]}
      [] field = "volumes" ->
            {[c EXCEPT !.volumes = v] : v \in
               {<<>>, <<Volume("extra", "/extra", {"secret"})>>,
                <<Volume("ravendb-data", "/extra", {"configMap"})>>,
                <<Volume("extra", "/certs", {"configMap"})>>,
                <<Volume("extra", "/extra", {"configMap", "secret"})>>}}
      [] field = "env" -> {[c EXCEPT !.env = e] : e \in {{}, {"mine"}, {"hooks"}}}

Edits(c) == UNION {Edited(c, f) : f \in Fields}

-----------------------------------------------------------------------------
Init ==
    /\ spec = NoCluster
    /\ sec = Intact
    /\ sts = [n \in Node |-> NoObject]
    /\ svc = [n \in Node |-> NoObject]
    /\ ingress = NoObject
    /\ job = NoObject
    /\ bootstrapped = FALSE
    /\ last = "none"
    /\ updates = 0
    /\ changes = 0

Create ==
    /\ spec = NoCluster
    /\ \E mode \in {"LetsEncrypt", "None"}, image \in FirstImages :
          spec' \in {Base(mode, image)} \cup Edits(Base(mode, image))
    /\ RunCreate(spec', sec)
    /\ UNCHANGED <<sec, objects, bootstrapped, last, updates, changes>>

Update ==
    /\ spec # NoCluster
    /\ updates + changes < MaxEdits
    /\ spec' \in Edits(spec) \ {spec}
    /\ RunUpdate(spec, spec', sec)
    /\ last' = "none"
    /\ updates' = updates + 1
    /\ UNCHANGED <<sec, objects, bootstrapped, changes>>

(* The user replaces or deletes a secret, which no webhook looks at.       *)
ChangeSecret ==
    /\ updates + changes < MaxEdits
    /\ \E s \in Secrets, v \in Contents :
          v # sec[s] /\ sec' = [sec EXCEPT ![s] = v]
    /\ changes' = changes + 1
    /\ UNCHANGED <<spec, objects, bootstrapped, last, updates>>

-----------------------------------------------------------------------------
(* The API server *)

(* The name of an object and the host of an Ingress are in lower case; the *)
(* tag of a node is part of both, as the user writes it.                   *)
ValidTag(tag) == tag # "A"
ValidTags(c) == \A i \in DOMAIN c.nodes : ValidTag(c.nodes[i].tag)

(* Two volumes of one name, two mounts on one path, or a variable twice.   *)
Collides(c, m) ==
    \/ ~Unique([i \in DOMAIN m.volumes |-> m.volumes[i].name])
    \/ ~Unique([i \in DOMAIN m.mounts |-> m.mounts[i].path])
    \/ m.env \cap ReservedEnv(c) # {}

(* The volume claims of a StatefulSet are immutable.                       *)
ClaimsChange(old, new) == Exists(old) /\ old.claims # new.claims

(* A Job's template is immutable, and a volume's secret needs a name.      *)
JobRejected(c) ==
    \/ getServerCertSecretName(c) = Unset
    \/ Exists(job) /\ job # BuildJob(c)

-----------------------------------------------------------------------------
(* A reconcile *)

IngressShouldAct(c) ==
    c.access.type = "ingress-controller" /\ c.access.class # "traefik"

First(n, S) == n \in S /\ \A m \in S : n <= m

Missing == {n \in Nodes : ~Exists(sts[n])}
Mismatched == {n \in Nodes : Exists(sts[n]) /\ sts[n].image # spec.image}

(* pickSelectedTag: a missing node, else one with another image.           *)
Selected(n) == First(n, IF Missing # {} THEN Missing ELSE Mismatched)

IngressFails(c) == IngressShouldAct(c) /\ (IngressPanics(c) \/ ~ValidTags(c))

(* The per-cluster actors go first, the Ingress before the Job, then the   *)
(* gates are built.                                                        *)
BeforeNodes ==
    IF IngressFails(spec)
    THEN IF IngressPanics(spec) THEN "panic" ELSE "rejected"
    ELSE IF ~bootstrapped /\ JobPanics(spec) THEN "panic"
    ELSE IF ~bootstrapped /\ JobRejected(spec) THEN "rejected"
    ELSE IF HTTPSClientPanics(spec, sec) THEN "panic"
    ELSE IF ~BuildHTTPSClientFromCluster(spec, sec) THEN "gates"
    ELSE "ok"

ApplyIngress ==
    ingress' = IF IngressShouldAct(spec) /\ ~IngressFails(spec)
               THEN BuildIngress(spec) ELSE ingress

ApplyJob ==
    job' = IF /\ ~IngressFails(spec)
              /\ ~bootstrapped /\ ~JobPanics(spec) /\ ~JobRejected(spec)
           THEN BuildJob(spec) ELSE job

(* The StatefulSet and, when that is accepted, the Service of a node.      *)
ApplyNode(n) ==
    LET m == BuildStatefulSet(spec, spec.nodes[n])
    IN  IF StatefulSetPanics(spec, spec.nodes[n])
        THEN last' = "panic" /\ UNCHANGED <<sts, svc>>
        ELSE IF ~ValidTag(m.name) \/ Collides(spec, m) \/ ClaimsChange(sts[n], m)
        THEN last' = "rejected" /\ UNCHANGED <<sts, svc>>
        ELSE /\ sts' = [sts EXCEPT ![n] = m]
             /\ IF ServicePanics(spec)
                THEN last' = "panic" /\ UNCHANGED svc
                ELSE /\ svc' = [svc EXCEPT ![n] = BuildService(spec, spec.nodes[n])]
                     /\ last' = "applied"

Reconcile ==
    /\ spec # NoCluster
    /\ ApplyIngress
    /\ ApplyJob
    /\ \/ /\ BeforeNodes # "ok"
          /\ last' = BeforeNodes
          /\ UNCHANGED <<sts, svc>>
       \/ /\ BeforeNodes = "ok"
          /\ \E n \in Nodes : Selected(n) /\ ApplyNode(n)
       \/ /\ BeforeNodes = "ok"
          /\ Missing = {} /\ Mismatched = {}
          /\ last' = "nothing"
          /\ UNCHANGED <<sts, svc>>
    /\ UNCHANGED <<spec, sec, bootstrapped, updates, changes>>

(* The Job's scripts read the certificates by their fixed names.           *)
Bootstrap ==
    /\ Exists(job)
    /\ ~bootstrapped
    /\ Missing = {}
    /\ \A i \in DOMAIN job.volumes :
          job.volumes[i].source = "secret" =>
             sec[job.volumes[i].of] \in {"canonical", "several"}
    /\ bootstrapped' = TRUE
    /\ UNCHANGED <<spec, sec, objects, last, updates, changes>>

Next == Create \/ Update \/ ChangeSecret \/ Reconcile \/ Bootstrap

(* Errors, recovered panics included, put the cluster back into the queue; *)
(* events and the resync do so otherwise.                                  *)
Spec == Init /\ [][Next]_vars
FairSpec == Spec /\ WF_vars(Reconcile) /\ WF_vars(Bootstrap)

-----------------------------------------------------------------------------
(* Properties *)

TypeOK ==
    /\ spec # NoCluster => spec.mode \in {"LetsEncrypt", "None"}
    /\ sec \in [Secrets -> Contents \cup {"canonical"}]
    /\ \A n \in Node :
          /\ Exists(sts[n]) => sts[n].image \in Images
          /\ Exists(svc[n]) => svc[n].type \in {"ClusterIP", "LoadBalancer"}
    /\ Exists(ingress) => ingress.class = "nginx"
    /\ bootstrapped \in BOOLEAN
    /\ last \in {"none", "panic", "rejected", "gates", "nothing", "applied"}
    /\ updates \in 0 .. MaxEdits
    /\ changes \in 0 .. MaxEdits

(* The order of versions, one without a patch number being its patch 0.    *)
Patch(v) == IF Len(v) = 3 THEN v[3] ELSE 0

NotOlder(old, new) ==
    \/ old = new
    \/ /\ old # <<>> /\ new # <<>>
       /\ \/ old[1] < new[1]
          \/ old[1] = new[1] /\ old[2] < new[2]
          \/ old[1] = new[1] /\ old[2] = new[2] /\ Patch(old) <= Patch(new)

(* Does every number of the version fit into an int?                       *)
Readable(version) == \A i \in DOMAIN version : version[i] <= MaxInt

(* However a cluster is edited, its version never goes down, though tags   *)
(* may leave out the patch number, equal versions may be different builds, *)
(* and the new version may have numbers that the parser cannot read. Of    *)
(* two that it cannot read it does not know the older one                  *)
(* (image_validator.go).                                                   *)
NeverDowngraded ==
    [][spec # NoCluster /\ Readable(spec.image.version) =>
          NotOlder(spec.image.version, spec'.image.version)]_vars

(* The builders dereference a nil reference only in specs that an update   *)
(* has made of a valid one: none that could be created makes a reconcile   *)
(* panic (generalValidator.ValidateUpdate checks immutable fields only).   *)
ValidIsBuildable == last = "panic" => ~RunCreate(spec, Intact)

(* The secrets of the volumes that the builders add themselves.            *)
MountedBy(m) ==
    {m.volumes[i].of : i \in {j \in DOMAIN m.volumes :
        /\ m.volumes[j].source = "secret"
        /\ m.volumes[j].name # "extra"}}

(* What a pod or the Job of the present spec mounts is what                *)
(* CertificatesReady and LicensesValid wait for: when they are true no pod *)
(* waits for a secret (getExpectedSecretNames against buildVolumes). An    *)
(* update is not checked for it, so this is about specs one could create.  *)
MountedIsExpected ==
    spec # NoCluster /\ RunCreate(spec, Intact) =>
       LET expected == getExpectedSecretNames(spec) \cup {spec.license}
       IN  /\ \A n \in Nodes : sts[n] = BuildStatefulSet(spec, spec.nodes[n])
                                 => MountedBy(sts[n]) \subseteq expected
           /\ job = BuildJob(spec) => MountedBy(job) \subseteq expected

(* A cluster can always be edited again: with its secrets in place it is   *)
(* itself an admissible update, unless its tag has no version at all       *)
(* (compareTagsDowngrade, which a create does not call).                   *)
NeverLockedOut ==
    spec # NoCluster =>
       RunUpdate(spec, spec, Intact) \/ ~HasVersion(spec.image)

(* Does the user choose names or paths that a builder also chooses?        *)
ChoosesNames(c) ==
    c.volumes # <<>> \/ c.env # {} \/ {c.logs, c.audit} \ {Unset, "default"} # {}

(* A cluster as it was created, with no names and paths of the user's own  *)
(* and tags that may be part of a name, is not refused for a collision or  *)
(* a change of something immutable: what the builders add to one another   *)
(* does not collide, and the same spec gives the same claims and the same  *)
(* Job again (buildVolumes, buildVolumeMounts, BuildPVCs, BuildJob).       *)
FreshIsAccepted ==
    last = "rejected" => updates > 0 \/ ChoosesNames(spec) \/ ~ValidTags(spec)

(* The objects of every node come to be those of the spec (README: every   *)
(* component stays aligned with the declared spec).                        *)
SpecReachesNodes ==
    <>[](spec # NoCluster =>
           \A n \in Nodes : /\ sts[n] = BuildStatefulSet(spec, spec.nodes[n])
                             /\ svc[n] = BuildService(spec, spec.nodes[n]))

=============================================================================
