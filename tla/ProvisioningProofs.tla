------------------------- MODULE ProvisioningProofs -------------------------
(***************************************************************************)
(* Proofs about Provisioning: what the webhook lets through, what it keeps *)
(* of a cluster from one update to the next, and what the builders make of *)
(* it, for any images, any secrets and any number of edits.                *)
(***************************************************************************)
EXTENDS Provisioning, TLAPS

-----------------------------------------------------------------------------
(* The specs a user can write. *)

UrlRec == [scheme : {"https", "tcp"}, tag : {"a", "b", "A"}, domain : {"example"},
           port : {0, 443}]

NodeRec == [tag : {"a", "b", "A"}, url : UrlRec, tcp : UrlRec, cert : {Unset, "node"}]

NodeLists == {ns \in Seq(NodeRec) : Len(ns) \in 1 .. 2}

VolumeLists ==
    {<<>>, <<Volume("extra", "/extra", {"secret"})>>,
     <<Volume("ravendb-data", "/extra", {"configMap"})>>,
     <<Volume("extra", "/certs", {"configMap"})>>,
     <<Volume("extra", "/extra", {"configMap", "secret"})>>}

Cluster ==
    [image : Images, mode : {"LetsEncrypt", "None"}, email : BOOLEAN,
     domain : {"example", "localhost"}, license : {"license"},
     client : {"client", "spare"}, clusterCert : {Unset, "cluster"},
     caCert : {Unset, "ca"}, nodes : NodeLists, access : Accesses,
     data : {1, 2}, vac : {Unset, "missing"},
     logs : {Unset, "default", "/audit"},
     audit : {Unset, "default", "relative"},
     volumes : VolumeLists, env : {{}, {"mine"}, {"hooks"}}]

(* A written spec is not the absence of one.                               *)
LEMMA ClusterExists == ASSUME NEW c \in Cluster PROVE c # NoCluster
  <1>1. DOMAIN NoCluster = {"absent"}
    BY DEF NoCluster
  <1>2. "image" \in DOMAIN c
    BY DEF Cluster
  <1> QED
    BY <1>1, <1>2

(* The two nodes of a first spec.                                          *)
LEMMA BaseNodes ==
    ASSUME NEW cert \in {Unset, "node"}
    PROVE  <<NodeOf("a", cert), NodeOf("b", cert)>> \in NodeLists
  <1>1. \A t \in {"a", "b"}, s \in {"https", "tcp"} : Url(s, t) \in UrlRec
    BY DEF Url, UrlRec
  <1>2. \A t \in {"a", "b"} : NodeOf(t, cert) \in NodeRec
    BY <1>1 DEF NodeOf, NodeRec
  <1> HIDE DEF NodeRec, NodeOf
  <1> QED
    BY <1>2 DEF NodeLists

(* First specs are specs.                                                  *)
LEMMA BaseTyped ==
    ASSUME NEW mode \in {"LetsEncrypt", "None"}, NEW image \in Images
    PROVE  Base(mode, image) \in Cluster
  <1> DEFINE own == mode = "None"
             cert == IF own THEN Unset ELSE "node"
             nodes == <<NodeOf("a", cert), NodeOf("b", cert)>>
  <1>1. nodes \in NodeLists
    BY BaseNodes
  <1>2. NoAccess \in Accesses
    BY DEF Accesses
  <1>3. <<>> \in VolumeLists
    BY DEF VolumeLists
  <1> DEFINE email == ~own
             cc == IF own THEN "cluster" ELSE Unset
             ca == IF own THEN "ca" ELSE Unset
  <1>5. cc \in {Unset, "cluster"} /\ ca \in {Unset, "ca"}
    OBVIOUS
  <1>6. Base(mode, image) =
          [image |-> image, mode |-> mode, email |-> email, domain |-> "example",
           license |-> "license", client |-> "client", clusterCert |-> cc,
           caCert |-> ca, nodes |-> nodes, access |-> NoAccess, data |-> 1,
           vac |-> Unset, logs |-> Unset, audit |-> Unset, volumes |-> <<>>,
           env |-> {}]
    BY Zenon DEF Base
  <1>7. email \in BOOLEAN
    OBVIOUS
  <1> HIDE DEF nodes, email, cc, ca
  <1> QED
    BY <1>1, <1>2, <1>3, <1>5, <1>6, <1>7 DEF Cluster

(* A change of one field is a spec if the new value is one of that field.  *)
LEMMA FieldTyped ==
    ASSUME NEW c \in Cluster
    PROVE  /\ \A v \in Images : [c EXCEPT !.image = v] \in Cluster
           /\ \A v \in BOOLEAN : [c EXCEPT !.email = v] \in Cluster
           /\ \A v \in {Unset, "cluster"} : [c EXCEPT !.clusterCert = v] \in Cluster
           /\ \A v \in {Unset, "ca"} : [c EXCEPT !.caCert = v] \in Cluster
           /\ \A v \in {"client", "spare"} : [c EXCEPT !.client = v] \in Cluster
           /\ \A v \in {"LetsEncrypt", "None"} : [c EXCEPT !.mode = v] \in Cluster
           /\ \A v \in {"example", "localhost"} : [c EXCEPT !.domain = v] \in Cluster
           /\ \A v \in NodeLists : [c EXCEPT !.nodes = v] \in Cluster
           /\ \A v \in Accesses : [c EXCEPT !.access = v] \in Cluster
           /\ \A v \in {1, 2} : [c EXCEPT !.data = v] \in Cluster
           /\ \A v \in {Unset, "missing"} : [c EXCEPT !.vac = v] \in Cluster
           /\ \A v \in {Unset, "default", "/audit"} : [c EXCEPT !.logs = v] \in Cluster
           /\ \A v \in {Unset, "default", "relative"} : [c EXCEPT !.audit = v] \in Cluster
           /\ \A v \in VolumeLists : [c EXCEPT !.volumes = v] \in Cluster
           /\ \A v \in {{}, {"mine"}, {"hooks"}} : [c EXCEPT !.env = v] \in Cluster
  <1>1. \A v \in Images : [c EXCEPT !.image = v] \in Cluster
    BY DEF Cluster
  <1>2. \A v \in BOOLEAN : [c EXCEPT !.email = v] \in Cluster
    BY DEF Cluster
  <1>3. \A v \in {Unset, "cluster"} : [c EXCEPT !.clusterCert = v] \in Cluster
    BY DEF Cluster
  <1>4. \A v \in {Unset, "ca"} : [c EXCEPT !.caCert = v] \in Cluster
    BY DEF Cluster
  <1>5. \A v \in {"client", "spare"} : [c EXCEPT !.client = v] \in Cluster
    BY DEF Cluster
  <1>6. \A v \in {"LetsEncrypt", "None"} : [c EXCEPT !.mode = v] \in Cluster
    BY DEF Cluster
  <1>7. \A v \in {"example", "localhost"} : [c EXCEPT !.domain = v] \in Cluster
    BY DEF Cluster
  <1>8. \A v \in NodeLists : [c EXCEPT !.nodes = v] \in Cluster
    BY DEF Cluster
  <1>9. \A v \in Accesses : [c EXCEPT !.access = v] \in Cluster
    BY DEF Cluster
  <1>10. \A v \in {1, 2} : [c EXCEPT !.data = v] \in Cluster
    BY DEF Cluster
  <1>11. \A v \in {Unset, "missing"} : [c EXCEPT !.vac = v] \in Cluster
    BY DEF Cluster
  <1>12. \A v \in {Unset, "default", "/audit"} : [c EXCEPT !.logs = v] \in Cluster
    BY DEF Cluster
  <1>13. \A v \in {Unset, "default", "relative"} : [c EXCEPT !.audit = v] \in Cluster
    BY DEF Cluster
  <1>14. \A v \in VolumeLists : [c EXCEPT !.volumes = v] \in Cluster
    BY DEF Cluster
  <1>15. \A v \in {{}, {"mine"}, {"hooks"}} : [c EXCEPT !.env = v] \in Cluster
    BY DEF Cluster
  <1> QED
    BY <1>1, <1>2, <1>3, <1>4, <1>5, <1>6, <1>7, <1>8, <1>9, <1>10, <1>11, <1>12, <1>13, <1>14, <1>15

(* The edits of the nodes leave a list of nodes.                           *)
LEMMA NodesTyped ==
    ASSUME NEW ns \in NodeLists
    PROVE  /\ \A v \in {Unset, "node"} : [ns EXCEPT ![1].cert = v] \in NodeLists
           /\ [ns EXCEPT ![1].tcp.port = 0] \in NodeLists
           /\ <<ns[1]>> \in NodeLists
           /\ <<ns[1], ns[1]>> \in NodeLists
           /\ [ns EXCEPT ![1] = NodeOf("A", ns[1].cert)] \in NodeLists
  <1>1. ns \in Seq(NodeRec) /\ Len(ns) \in 1 .. 2 /\ 1 \in DOMAIN ns
        /\ ns[1] \in NodeRec
    BY DEF NodeLists
  <1>2. \A v \in {Unset, "node"} : [ns[1] EXCEPT !.cert = v] \in NodeRec
    BY <1>1 DEF NodeRec
  <1>3. ns[1].tcp \in UrlRec
    BY <1>1 DEF NodeRec
  <1>4. [ns[1].tcp EXCEPT !.port = 0] \in UrlRec
    BY <1>3 DEF UrlRec
  <1>5. [ns[1] EXCEPT !.tcp.port = 0] \in NodeRec
    BY <1>1, <1>4 DEF NodeRec
  <1>6. \A r \in NodeRec : [ns EXCEPT ![1] = r] \in NodeLists
    BY <1>1 DEF NodeLists
  <1>7. \A r \in NodeRec : <<r>> \in NodeLists /\ <<r, r>> \in NodeLists
    BY DEF NodeLists
  <1>8. \A v \in {Unset, "node"} :
           [ns EXCEPT ![1].cert = v] = [ns EXCEPT ![1] = [ns[1] EXCEPT !.cert = v]]
    BY <1>1
  <1>9. [ns EXCEPT ![1].tcp.port = 0]
          = [ns EXCEPT ![1] = [ns[1] EXCEPT !.tcp.port = 0]]
    BY <1>1
  <1>10. NodeOf("A", ns[1].cert) \in NodeRec
    <2>1. Url("https", "A") \in UrlRec /\ Url("tcp", "A") \in UrlRec
      BY DEF Url, UrlRec
    <2>2. ns[1].cert \in {Unset, "node"}
      BY <1>1 DEF NodeRec
    <2> QED
      BY <2>1, <2>2 DEF NodeOf, NodeRec
  <1> QED
    BY <1>1, <1>2, <1>5, <1>6, <1>7, <1>8, <1>9, <1>10

(* What the user makes of a spec by editing a field is a spec again.       *)
LEMMA EditedTyped ==
    ASSUME NEW c \in Cluster, NEW f \in Fields, NEW d \in Edited(c, f)
    PROVE  d \in Cluster
  <1>1. CASE f = "image"
    <2>1. Edited(c, f) = {[c EXCEPT !.image = i] : i \in Images}
      BY <1>1 DEF Edited
    <2>2. \A v \in Images : [c EXCEPT !.image = v] \in Cluster
      BY FieldTyped
    <2> QED
      BY <2>1, <2>2
  <1>2. CASE f = "email"
    <2>1. Edited(c, f) = {[c EXCEPT !.email = ~c.email]}
      BY <1>2, Zenon DEF Edited
    <2> DEFINE e == ~c.email
    <2>2. e \in BOOLEAN
      OBVIOUS
    <2> HIDE DEF e
    <2>3. [c EXCEPT !.email = e] \in Cluster
      BY <2>2, FieldTyped
    <2>4. d = [c EXCEPT !.email = e]
      BY <2>1, Zenon DEF e
    <2> QED
      BY <2>3, <2>4
  <1>3. CASE f = "clusterCert"
    <2>1. Edited(c, f) = {[c EXCEPT !.clusterCert = s] : s \in {Unset, "cluster"}}
      BY <1>3 DEF Edited
    <2>2. \A v \in {Unset, "cluster"} : [c EXCEPT !.clusterCert = v] \in Cluster
      BY FieldTyped
    <2> QED
      BY <2>1, <2>2
  <1>4. CASE f = "caCert"
    <2>1. Edited(c, f) = {[c EXCEPT !.caCert = s] : s \in {Unset, "ca"}}
      BY <1>4 DEF Edited
    <2>2. \A v \in {Unset, "ca"} : [c EXCEPT !.caCert = v] \in Cluster
      BY FieldTyped
    <2> QED
      BY <2>1, <2>2
  <1>5. CASE f = "client"
    <2>1. Edited(c, f) = {[c EXCEPT !.client = s] : s \in {"client", "spare"}}
      BY <1>5 DEF Edited
    <2>2. \A v \in {"client", "spare"} : [c EXCEPT !.client = v] \in Cluster
      BY FieldTyped
    <2> QED
      BY <2>1, <2>2
  <1> c.nodes \in NodeLists /\ "nodes" \in DOMAIN c
    BY DEF Cluster
  <1>6. CASE f = "cert"
    <2>1. Edited(c, f) = {[c EXCEPT !.nodes[1].cert = s] : s \in {Unset, "node"}}
      BY <1>6 DEF Edited
    <2>2. \A s : [c EXCEPT !.nodes[1].cert = s]
                  = [c EXCEPT !.nodes = [c.nodes EXCEPT ![1].cert = s]]
      OBVIOUS
    <2>3. PICK s \in {Unset, "node"} : d = [c EXCEPT !.nodes[1].cert = s]
      BY <2>1
    <2>4. [c.nodes EXCEPT ![1].cert = s] \in NodeLists
      BY NodesTyped
    <2>5. [c EXCEPT !.nodes = [c.nodes EXCEPT ![1].cert = s]] \in Cluster
      BY <2>4, FieldTyped
    <2> QED
      BY <2>2, <2>3, <2>5
  <1>7. CASE f = "immutable"
    <2>1. Edited(c, f) =
            {[c EXCEPT !.mode = "None"], [c EXCEPT !.domain = "localhost"],
             [c EXCEPT !.nodes = <<c.nodes[1]>>],
             [c EXCEPT !.nodes = <<c.nodes[1], c.nodes[1]>>],
             [c EXCEPT !.nodes[1].tcp.port = 0]}
      BY <1>7 DEF Edited
    <2>2. [c EXCEPT !.nodes[1].tcp.port = 0]
            = [c EXCEPT !.nodes = [c.nodes EXCEPT ![1].tcp.port = 0]]
      OBVIOUS
    <2>3. /\ <<c.nodes[1]>> \in NodeLists
          /\ <<c.nodes[1], c.nodes[1]>> \in NodeLists
          /\ [c.nodes EXCEPT ![1].tcp.port = 0] \in NodeLists
      BY NodesTyped
    <2>4. /\ [c EXCEPT !.mode = "None"] \in Cluster
          /\ [c EXCEPT !.domain = "localhost"] \in Cluster
          /\ [c EXCEPT !.nodes = <<c.nodes[1]>>] \in Cluster
          /\ [c EXCEPT !.nodes = <<c.nodes[1], c.nodes[1]>>] \in Cluster
          /\ [c EXCEPT !.nodes[1].tcp.port = 0] \in Cluster
      BY <2>2, <2>3, FieldTyped
    <2> QED
      BY <2>1, <2>4
  <1>8. CASE f = "access"
    <2>1. Edited(c, f) = {[c EXCEPT !.access = a] : a \in Accesses}
      BY <1>8 DEF Edited
    <2>2. \A v \in Accesses : [c EXCEPT !.access = v] \in Cluster
      BY FieldTyped
    <2> QED
      BY <2>1, <2>2
  <1>9. CASE f = "storage"
    <2>1. Edited(c, f) =
            {[c EXCEPT !.data = 2], [c EXCEPT !.vac = "missing"],
             [c EXCEPT !.logs = "default"], [c EXCEPT !.logs = "/audit"],
             [c EXCEPT !.logs = "default", !.audit = "default"],
             [c EXCEPT !.audit = "relative"]}
      BY <1>9 DEF Edited
    <2>2. /\ [c EXCEPT !.data = 2] \in Cluster
          /\ [c EXCEPT !.vac = "missing"] \in Cluster
          /\ [c EXCEPT !.logs = "default"] \in Cluster
          /\ [c EXCEPT !.logs = "/audit"] \in Cluster
          /\ [c EXCEPT !.audit = "relative"] \in Cluster
      BY FieldTyped
    <2> DEFINE d1 == [c EXCEPT !.logs = "default"]
    <2>3. [d1 EXCEPT !.audit = "default"] \in Cluster
      <3> HIDE DEF d1
      <3>1. d1 \in Cluster
        BY <2>2 DEF d1
      <3> QED
        BY <3>1, FieldTyped
    <2>4. [c EXCEPT !.logs = "default", !.audit = "default"]
            = [d1 EXCEPT !.audit = "default"]
      OBVIOUS
    <2> QED
      BY <2>1, <2>2, <2>3, <2>4
  <1>10. CASE f = "volumes"
    <2>1. Edited(c, f) = {[c EXCEPT !.volumes = v] : v \in VolumeLists}
      BY <1>10 DEF Edited, VolumeLists
    <2>2. \A v \in VolumeLists : [c EXCEPT !.volumes = v] \in Cluster
      BY FieldTyped
    <2> QED
      BY <2>1, <2>2
  <1>11. CASE f = "env"
    <2>1. Edited(c, f) = {[c EXCEPT !.env = e] : e \in {{}, {"mine"}, {"hooks"}}}
      BY <1>11 DEF Edited
    <2>2. \A v \in {{}, {"mine"}, {"hooks"}} : [c EXCEPT !.env = v] \in Cluster
      BY FieldTyped
    <2> QED
      BY <2>1, <2>2
  <1>12. CASE f = "tag"
    <2>1. Edited(c, f) = {[c EXCEPT !.nodes[1] = NodeOf("A", c.nodes[1].cert)]}
      BY <1>12 DEF Edited
    <2> DEFINE ns == [c.nodes EXCEPT ![1] = NodeOf("A", c.nodes[1].cert)]
    <2>2. [c EXCEPT !.nodes[1] = NodeOf("A", c.nodes[1].cert)] = [c EXCEPT !.nodes = ns]
      OBVIOUS
    <2>3. ns \in NodeLists
      BY NodesTyped
    <2> HIDE DEF ns
    <2>4. [c EXCEPT !.nodes = ns] \in Cluster
      BY <2>3, FieldTyped
    <2> QED
      BY <2>1, <2>2, <2>4
  <1> QED
    BY <1>1, <1>2, <1>3, <1>4, <1>5, <1>6, <1>7, <1>8, <1>9, <1>10, <1>11,
       <1>12, FieldsAssumption

(* All that a user can write is a spec.                                    *)
LEMMA WrittenTyped ==
    /\ \A c \in Cluster : Edits(c) \subseteq Cluster
    /\ \A mode \in {"LetsEncrypt", "None"}, image \in FirstImages :
          {Base(mode, image)} \cup Edits(Base(mode, image)) \subseteq Cluster
  <1>1. \A c \in Cluster : Edits(c) \subseteq Cluster
    BY EditedTyped DEF Edits
  <1>2. \A mode \in {"LetsEncrypt", "None"}, image \in FirstImages :
           Base(mode, image) \in Cluster
    BY BaseTyped, ImagesAssumption
  <1> QED
    BY <1>1, <1>2

-----------------------------------------------------------------------------
(* The inductive invariant *)

TypeInv ==
    /\ spec # NoCluster => spec \in Cluster
    /\ DOMAIN sts = Node /\ DOMAIN svc = Node
    /\ TypeOK

(* What every update checks of the new spec held when it was admitted, and *)
(* holds with the secrets as they were then.                               *)
Admitted ==
    spec # NoCluster =>
       /\ validateImage(spec.image)
       /\ nodeCreate(spec, Intact)
       /\ eaCreate(spec)
       /\ storageCreate(spec)

(* Before there is a cluster nothing has been done for it.                 *)
Untouched ==
    spec = NoCluster =>
       /\ last = "none" /\ updates = 0
       /\ \A n \in Node : ~Exists(sts[n])
       /\ ~Exists(job)

(* Before the first update the spec is one that was created, and the       *)
(* objects were built from it.                                             *)
Fresh ==
    updates = 0 /\ spec # NoCluster =>
       /\ RunCreate(spec, Intact)
       /\ Exists(job) => job = BuildJob(spec)
       /\ \A n \in Nodes :
             Exists(sts[n]) => sts[n] = BuildStatefulSet(spec, spec.nodes[n])

Inv ==
    /\ TypeInv
    /\ Admitted
    /\ Untouched
    /\ Fresh
    /\ ValidIsBuildable
    /\ FreshIsAccepted

-----------------------------------------------------------------------------
(* Facts about specs *)

(* A spec has one or two nodes.                                            *)
LEMMA NodesOf ==
    ASSUME NEW c \in Cluster
    PROVE  /\ c.nodes \in Seq(NodeRec)
           /\ DOMAIN c.nodes \subseteq Node
           /\ 1 \in DOMAIN c.nodes
           /\ \A i \in DOMAIN c.nodes : c.nodes[i].cert \in {Unset, "node"}
  <1>1. c.nodes \in NodeLists
    BY DEF Cluster
  <1>2. c.nodes \in Seq(NodeRec) /\ Len(c.nodes) \in 1 .. 2
    BY <1>1 DEF NodeLists
  <1>3. \A i \in DOMAIN c.nodes : c.nodes[i] \in NodeRec
    BY <1>2
  <1>4. \A r \in NodeRec : r.cert \in {Unset, "node"}
    BY DEF NodeRec
  <1> QED
    BY <1>2, <1>3, <1>4 DEF Node

(* The secrets a spec names are among those that exist at first.           *)
LEMMA IntactSuffices ==
    ASSUME NEW c \in Cluster, NEW s
    PROVE  /\ nodeCreate(c, s) => nodeCreate(c, Intact)
           /\ RunCreate(c, s) => RunCreate(c, Intact)
  <1>1. \A n \in Secrets : ValidSecret(Intact, n)
    BY DEF ValidSecret, Intact
  <1>2. \A n \in {"license", "client", "spare", "cluster", "ca", "node"} :
           ValidSecret(Intact, n)
    BY <1>1 DEF Secrets
  <1>3. nodeCreate(c, s) => nodeCreate(c, Intact)
    BY <1>2, NodesOf DEF nodeCreate, ValidateNodeCertSecret
  <1>4. /\ c.license = "license"
        /\ c.client \in {"client", "spare"}
        /\ c.clusterCert \in {Unset, "cluster"}
        /\ c.caCert \in {Unset, "ca"}
    BY DEF Cluster
  <1>5. ValidateClusterCertSecret(c, s) => ValidateClusterCertSecret(c, Intact)
    BY <1>2, <1>4 DEF ValidateClusterCertSecret
  <1>6. ValidateCACertSecret(c, s) => ValidateCACertSecret(c, Intact)
    BY <1>2, <1>4 DEF ValidateCACertSecret
  <1>7. generalCreate(c, s) => generalCreate(c, Intact)
    BY <1>2, <1>4, <1>5, <1>6 DEF generalCreate
  <1> QED
    BY <1>3, <1>7 DEF RunCreate

(* No spec that may be created makes a builder panic.                      *)
LEMMA CreatableBuilds ==
    ASSUME NEW c \in Cluster, RunCreate(c, Intact)
    PROVE  /\ IngressShouldAct(c) => ~IngressPanics(c)
           /\ ~JobPanics(c)
           /\ \A s : ~HTTPSClientPanics(c, s)
           /\ \A i \in DOMAIN c.nodes : ~StatefulSetPanics(c, c.nodes[i])
           /\ ~ServicePanics(c)
           /\ getServerCertSecretName(c) # Unset
  <1>1. \A i \in DOMAIN c.nodes : certSecret(c, c.nodes[i]) # Unset
    <2>1. \A i \in DOMAIN c.nodes : ValidateNodeCertSecret(c, Intact, c.nodes[i])
      BY DEF RunCreate, nodeCreate
    <2>2. ValidateClusterCertSecret(c, Intact)
      BY DEF RunCreate, generalCreate
    <2> QED
      BY <2>1, <2>2
      DEF certSecret, ValidateNodeCertSecret, ValidateClusterCertSecret
  <1>2. c.mode = "LetsEncrypt" => c.email
    BY DEF RunCreate, generalCreate, ValidateEmail
  <1>3. 1 \in DOMAIN c.nodes
    BY NodesOf
  <1>4. c.mode = "None" => c.caCert # Unset
    BY DEF RunCreate, generalCreate, ValidateCACertSecret
  <1>5. c.access.type # "none" => c.access.contexts = {c.access.type}
    BY DEF RunCreate, eaCreate
  <1>6. IngressShouldAct(c) => ~IngressPanics(c)
    BY <1>5 DEF IngressShouldAct, IngressPanics
  <1>7. ~ServicePanics(c)
    BY <1>5 DEF ServicePanics
  <1>8. ~JobPanics(c) /\ getServerCertSecretName(c) # Unset
    BY <1>1, <1>3 DEF JobPanics, getServerCertSecretName, certSecret
  <1>9. \A s : ~HTTPSClientPanics(c, s)
    BY <1>4 DEF HTTPSClientPanics, needsCA
  <1>10. \A i \in DOMAIN c.nodes : ~StatefulSetPanics(c, c.nodes[i])
    BY <1>1, <1>2 DEF StatefulSetPanics
  <1> QED
    BY <1>6, <1>7, <1>8, <1>9, <1>10

(* The names of the volumes and the paths of the mounts that the builders  *)
(* choose are all different.                                               *)
LEMMA PlainAccepted ==
    ASSUME NEW c \in Cluster, NEW node, ~ChoosesNames(c)
    PROVE  ~Collides(c, BuildStatefulSet(c, node))
  <1> DEFINE m == BuildStatefulSet(c, node)
  <1>1. c.volumes = <<>> /\ c.env = {}
    BY DEF ChoosesNames
  <1>2. c.logs \in {Unset, "default"} /\ c.audit \in {Unset, "default"}
    BY DEF ChoosesNames
  <1>3. m.volumes = buildVolumes(c, node) /\ m.mounts = buildVolumeMounts(c)
        /\ m.env = c.env
    BY DEF BuildStatefulSet
  <1> HIDE DEF m
  <1>4. Unique([i \in DOMAIN m.volumes |-> m.volumes[i].name])
    <2> DEFINE cert == SecretVolume("ravendb-cert", certSecret(c, node))
               lic == SecretVolume("ravendb-license", c.license)
               fixed == <<PVC("ravendb-data"), cert, lic,
                          ConfigMapVolume("ravendb-cert-hook")>>
               logs == IF c.logs = Unset THEN <<>> ELSE <<PVC("ravendb-logs")>>
               audit == IF c.audit = Unset THEN <<>> ELSE <<PVC("ravendb-audit")>>
    <2>1. buildAdditionalVolumes(c.volumes) = <<>>
      BY <1>1 DEF buildAdditionalVolumes
    <2>2. m.volumes = fixed \o logs \o audit \o <<>>
      BY <1>3, <2>1 DEF buildVolumes
    <2>3. /\ PVC("ravendb-data").name = "ravendb-data"
          /\ cert.name = "ravendb-cert"
          /\ lic.name = "ravendb-license"
          /\ ConfigMapVolume("ravendb-cert-hook").name = "ravendb-cert-hook"
          /\ PVC("ravendb-logs").name = "ravendb-logs"
          /\ PVC("ravendb-audit").name = "ravendb-audit"
      BY DEF PVC, SecretVolume, ConfigMapVolume
    <2> HIDE DEF cert, lic
    <2>4. CASE c.logs = Unset /\ c.audit = Unset
      BY <2>2, <2>3, <2>4 DEF Unique
    <2>5. CASE c.logs # Unset /\ c.audit = Unset
      BY <2>2, <2>3, <2>5 DEF Unique
    <2>6. CASE c.logs = Unset /\ c.audit # Unset
      BY <2>2, <2>3, <2>6 DEF Unique
    <2>7. CASE c.logs # Unset /\ c.audit # Unset
      BY <2>2, <2>3, <2>7 DEF Unique
    <2> QED
      BY <2>4, <2>5, <2>6, <2>7
  <1>5. Unique([i \in DOMAIN m.mounts |-> m.mounts[i].path])
    <2> DEFINE fixed == <<Mount("ravendb-data", "/data"),
                          Mount("ravendb-cert", "/certs"),
                          Mount("ravendb-license", "/license"),
                          Mount("ravendb-cert-hook", "/update-cert.sh"),
                          Mount("ravendb-cert-hook", "/get-server-cert.sh")>>
               logs == IF c.logs = Unset THEN <<>>
                       ELSE <<Mount("ravendb-logs", "/logs")>>
               audit == IF c.audit = Unset THEN <<>>
                        ELSE <<Mount("ravendb-audit", "/audit")>>
    <2>1. [i \in DOMAIN c.volumes |-> Mount(c.volumes[i].name, c.volumes[i].path)]
            = <<>>
      BY <1>1
    <2>2. /\ c.logs # Unset => LogPath(c.logs, "/logs") = "/logs"
          /\ c.audit # Unset => LogPath(c.audit, "/audit") = "/audit"
      BY <1>2 DEF LogPath
    <2>3. m.mounts = fixed \o logs \o audit \o <<>>
      BY <1>3, <2>1, <2>2 DEF buildVolumeMounts
    <2>4. \A name, path : Mount(name, path).path = path
      BY DEF Mount
    <2>5. CASE c.logs = Unset /\ c.audit = Unset
      BY <2>3, <2>4, <2>5 DEF Unique
    <2>6. CASE c.logs # Unset /\ c.audit = Unset
      BY <2>3, <2>4, <2>6 DEF Unique
    <2>7. CASE c.logs = Unset /\ c.audit # Unset
      BY <2>3, <2>4, <2>7 DEF Unique
    <2>8. CASE c.logs # Unset /\ c.audit # Unset
      BY <2>3, <2>4, <2>8 DEF Unique
    <2> QED
      BY <2>5, <2>6, <2>7, <2>8
  <1>6. m.env \cap ReservedEnv(c) = {}
    BY <1>1, <1>3
  <1> QED
    BY <1>4, <1>5, <1>6 DEF Collides, m

(* The secrets in a sequence of volumes are those of its parts.            *)
LEMMA MountedConcat ==
    ASSUME NEW T, NEW s \in Seq(T), NEW t \in Seq(T), NEW E,
           \A i \in DOMAIN s :
              s[i].source = "secret" /\ s[i].name # "extra" => s[i].of \in E,
           \A i \in DOMAIN t :
              t[i].source = "secret" /\ t[i].name # "extra" => t[i].of \in E
    PROVE  /\ s \o t \in Seq(T)
           /\ \A i \in DOMAIN (s \o t) :
                 (s \o t)[i].source = "secret" /\ (s \o t)[i].name # "extra"
                   => (s \o t)[i].of \in E
  <1>1. \A i \in DOMAIN (s \o t) :
           \/ i \in DOMAIN s /\ (s \o t)[i] = s[i]
           \/ i - Len(s) \in DOMAIN t /\ (s \o t)[i] = t[i - Len(s)]
    OBVIOUS
  <1> QED
    BY <1>1

(* What a pod of a spec that may be created mounts is expected.            *)
LEMMA PodMounts ==
    ASSUME NEW c \in Cluster, RunCreate(c, Intact), NEW n \in DOMAIN c.nodes
    PROVE  MountedBy(BuildStatefulSet(c, c.nodes[n]))
             \subseteq getExpectedSecretNames(c) \cup {c.license}
  <1> DEFINE E == getExpectedSecretNames(c) \cup {c.license}
             T == [name : {"ravendb-data", "ravendb-cert", "ravendb-license",
                           "ravendb-cert-hook", "ravendb-logs",
                           "ravendb-audit", "extra"},
                   source : {"secret", "configMap", "persistentVolumeClaim"},
                   of : {"ravendb-data", "ravendb-cert-hook", "ravendb-logs",
                         "ravendb-audit", "extra", "license", "node", "cluster"}]
             Sound(s) == \A i \in DOMAIN s :
                            s[i].source = "secret" /\ s[i].name # "extra"
                              => s[i].of \in E
             cert == certSecret(c, c.nodes[n])
             fixed == <<PVC("ravendb-data"), SecretVolume("ravendb-cert", cert),
                        SecretVolume("ravendb-license", c.license),
                        ConfigMapVolume("ravendb-cert-hook")>>
             logs == IF c.logs = Unset THEN <<>> ELSE <<PVC("ravendb-logs")>>
             audit == IF c.audit = Unset THEN <<>> ELSE <<PVC("ravendb-audit")>>
             extra == buildAdditionalVolumes(c.volumes)
             vols == fixed \o logs \o audit \o extra
  <1>1. BuildStatefulSet(c, c.nodes[n]).volumes = vols
    BY DEF BuildStatefulSet, buildVolumes
  <1>2. cert # Unset
    BY CreatableBuilds DEF StatefulSetPanics
  <1>3. c.clusterCert \in {Unset, "cluster"} /\ c.license = "license"
        /\ c.volumes \in VolumeLists
    BY DEF Cluster
  <1>4. cert \in {"node", "cluster"}
    BY <1>2, <1>3, NodesOf DEF certSecret
  <1>5. cert \in E
    BY <1>2 DEF certSecret, getExpectedSecretNames
  <1>6. c.license \in E
    OBVIOUS
  <1>7. fixed \in Seq(T) /\ Sound(fixed)
    <2> HIDE DEF cert, E
    <2>1. /\ PVC("ravendb-data") \in T
          /\ SecretVolume("ravendb-cert", cert) \in T
          /\ SecretVolume("ravendb-license", c.license) \in T
          /\ ConfigMapVolume("ravendb-cert-hook") \in T
      BY <1>3, <1>4 DEF PVC, SecretVolume, ConfigMapVolume
    <2>2. /\ PVC("ravendb-data").source # "secret"
          /\ SecretVolume("ravendb-cert", cert).of \in E
          /\ SecretVolume("ravendb-license", c.license).of \in E
          /\ ConfigMapVolume("ravendb-cert-hook").source # "secret"
      BY <1>5, <1>6 DEF PVC, SecretVolume, ConfigMapVolume
    <2> HIDE DEF T
    <2> QED
      BY <2>1, <2>2
  <1>8. logs \in Seq(T) /\ Sound(logs) /\ audit \in Seq(T) /\ Sound(audit)
    <2>1. /\ PVC("ravendb-logs") \in T /\ PVC("ravendb-logs").source # "secret"
          /\ PVC("ravendb-audit") \in T /\ PVC("ravendb-audit").source # "secret"
      BY DEF PVC
    <2> HIDE DEF T, E
    <2> QED
      BY <2>1
  <1>9. extra \in Seq(T) /\ Sound(extra)
    <2> HIDE DEF E
    <2>1. ValidateAdditionalVolumes(c.volumes)
      BY DEF RunCreate, storageCreate
    <2>2. CASE c.volumes = <<>>
      <3>1. extra = <<>>
        BY <2>2 DEF buildAdditionalVolumes
      <3> QED
        BY <3>1
    <2>3. ASSUME NEW name \in {"extra", "ravendb-data"}, NEW path,
                 NEW src \in {"secret", "configMap"},
                 name = "extra" \/ src = "configMap",
                 c.volumes = <<Volume(name, path, {src})>>
          PROVE  extra \in Seq(T) /\ Sound(extra)
      <3> DEFINE v == [name |-> name, of |-> name, source |-> src]
      <3>1. (CHOOSE x \in {src} : TRUE) = src
        OBVIOUS
      <3>2. extra = <<v>>
        BY <2>3, <3>1 DEF buildAdditionalVolumes, Volume
      <3>3. v \in T /\ v.source = src /\ v.name = name
        BY <2>3
      <3> HIDE DEF v, T, extra
      <3> QED
        BY <2>3, <3>2, <3>3
    <2>4. c.volumes # <<Volume("extra", "/extra", {"configMap", "secret"})>>
      <3> SUFFICES ASSUME c.volumes
                            = <<Volume("extra", "/extra", {"configMap", "secret"})>>
                   PROVE  FALSE
        OBVIOUS
      <3>1. 1 \in DOMAIN c.volumes
            /\ c.volumes[1].sources = {"configMap", "secret"}
        BY DEF Volume
      <3>2. PICK x : c.volumes[1].sources = {x}
        BY <2>1, <3>1 DEF ValidateAdditionalVolumes
      <3> QED
        BY <3>1, <3>2
    <2> QED
      BY <1>3, <2>2, <2>3, <2>4 DEF VolumeLists
  <1>10. vols \in Seq(T) /\ Sound(vols)
    <2> HIDE DEF T, E, fixed, logs, audit, extra
    <2>1. fixed \o logs \in Seq(T) /\ Sound(fixed \o logs)
      BY <1>7, <1>8, MountedConcat
    <2>2. fixed \o logs \o audit \in Seq(T) /\ Sound(fixed \o logs \o audit)
      BY <1>8, <2>1, MountedConcat
    <2> QED
      BY <1>9, <2>2, MountedConcat
  <1> HIDE DEF vols, E
  <1> QED
    BY <1>1, <1>10 DEF MountedBy, E

(* So is what the Job mounts.                                              *)
LEMMA JobMounts ==
    ASSUME NEW c \in Cluster, RunCreate(c, Intact)
    PROVE  MountedBy(BuildJob(c)) \subseteq getExpectedSecretNames(c)
  <1> DEFINE E == getExpectedSecretNames(c)
             server == SecretVolume("ravendb-cert", getServerCertSecretName(c))
             client == SecretVolume("ravendb-client-cert", c.client)
             ca == SecretVolume("ravendb-ca-cert", c.caCert)
             hook == ConfigMapVolume("ravendb-bootstrapper-hook")
             vols == <<client, server>>
                     \o (IF c.caCert = Unset THEN <<>> ELSE <<ca>>) \o <<hook>>
  <1>1. BuildJob(c).volumes = vols
    BY DEF BuildJob, buildJobVolumes
  <1>2. c.client \in E
    BY DEF getExpectedSecretNames
  <1>3. getServerCertSecretName(c) \in E
    <2>1. getServerCertSecretName(c) # Unset
      BY CreatableBuilds
    <2> QED
      BY <2>1, NodesOf
      DEF getServerCertSecretName, certSecret, getExpectedSecretNames
  <1>4. c.caCert # Unset => c.caCert \in E
    <2>1. c.caCert # Unset => c.mode # "LetsEncrypt"
      BY DEF RunCreate, generalCreate, ValidateCACertSecret
    <2> QED
      BY <2>1 DEF getExpectedSecretNames
  <1>5. client.of \in E /\ server.of \in E /\ hook.source # "secret"
        /\ (c.caCert # Unset => ca.of \in E)
    BY <1>2, <1>3, <1>4 DEF SecretVolume, ConfigMapVolume
  <1> HIDE DEF E, client, server, ca, hook
  <1>6. \A i \in DOMAIN vols : vols[i].source = "secret" => vols[i].of \in E
    <2>1. CASE c.caCert = Unset
      BY <1>5, <2>1
    <2>2. CASE c.caCert # Unset
      BY <1>5, <2>2
    <2> QED
      BY <2>1, <2>2
  <1> HIDE DEF vols
  <1> QED
    BY <1>1, <1>6 DEF MountedBy, E

(* The classes of the Ingresses and the kinds of Service that are built.   *)
LEMMA AccessKinds ==
    ASSUME NEW c \in Cluster
    PROVE  /\ c.access.type = "ingress-controller" => c.access.class = "nginx"
           /\ \A node : BuildService(c, node).type \in {"ClusterIP", "LoadBalancer"}
  <1>1. c.access \in Accesses
    BY DEF Cluster
  <1>2. \A a \in Accesses : a.type = "ingress-controller" => a.class = "nginx"
    <2>1. NoAccess.type = "none"
          /\ DOMAIN NoAccess = {"type", "contexts", "class", "mapped", "passthrough"}
      BY DEF NoAccess
    <2>2. \A x : [NoAccess EXCEPT !.type = "ingress-controller", !.contexts = x,
                                 !.class = "nginx"].class = "nginx"
      BY <2>1
    <2>3. [NoAccess EXCEPT !.type = "aws-nlb"].type = "aws-nlb"
      BY <2>1
    <2>4. [NoAccess EXCEPT !.type = "aws-nlb", !.contexts = {"aws-nlb"},
                           !.mapped = {"a"}].type = "aws-nlb"
      BY <2>1
    <2>5. TAKE a \in Accesses
    <2>6. \/ a = NoAccess
          \/ a = [NoAccess EXCEPT !.type = "aws-nlb"]
          \/ a = [NoAccess EXCEPT !.type = "aws-nlb", !.contexts = {"aws-nlb"},
                                  !.mapped = {"a"}]
          \/ \E x : a = [NoAccess EXCEPT !.type = "ingress-controller",
                                         !.contexts = x, !.class = "nginx"]
      BY DEF Accesses
    <2> QED
      BY <2>1, <2>2, <2>3, <2>4, <2>6
  <1>3. \A node : BuildService(c, node).type \in {"ClusterIP", "LoadBalancer"}
    BY DEF BuildService
  <1> QED
    BY <1>1, <1>2, <1>3

(* A number that is read is a number, one that fits is read as it is, and  *)
(* none is read as a larger one.                                           *)
LEMMA AtoiReads ==
    ASSUME NEW n \in Nat
    PROVE  /\ Atoi(n) \in Nat
           /\ n <= MaxInt => Atoi(n) = n
           /\ Atoi(n) <= n
  BY MaxIntAssumption DEF Atoi

(* A parsed version has three numbers, the last one 0 if the tag has none. *)
LEMMA ParsedVersion ==
    ASSUME NEW v \in Seq(Nat), Len(v) \in {2, 3}
    PROVE  /\ parseRavenVersion(v) = <<Atoi(v[1]), Atoi(v[2]), Atoi(Patch(v))>>
           /\ v[1] \in Nat /\ v[2] \in Nat /\ Patch(v) \in Nat
  <1>1. v[1] \in Nat /\ v[2] \in Nat /\ (Len(v) = 3 => v[3] \in Nat)
    BY Len(v) = 2 \/ Len(v) = 3
  <1>2. Atoi(0) = 0
    BY MaxIntAssumption DEF Atoi
  <1>3. CASE Len(v) = 2
    BY <1>1, <1>2, <1>3 DEF parseRavenVersion, Patch
  <1>4. CASE Len(v) = 3
    BY <1>1, <1>4 DEF parseRavenVersion, Patch
  <1> QED
    BY <1>3, <1>4

(* Triples that compareSemver does not put in the order "newer, older".    *)
LEMMA CompareTriples ==
    ASSUME NEW a1 \in Nat, NEW a2 \in Nat, NEW a3 \in Nat,
           NEW b1 \in Nat, NEW b2 \in Nat, NEW b3 \in Nat,
           compareSemver(<<a1, a2, a3>>, <<b1, b2, b3>>) # 1
    PROVE  \/ a1 < b1
           \/ a1 = b1 /\ a2 < b2
           \/ a1 = b1 /\ a2 = b2 /\ a3 <= b3
  <1> DEFINE a == <<a1, a2, a3>>
             b == <<b1, b2, b3>>
  <1>1. /\ a[1] = a1 /\ a[2] = a2 /\ a[3] = a3
        /\ b[1] = b1 /\ b[2] = b2 /\ b[3] = b3
    OBVIOUS
  <1>2. CASE a = b
    BY <1>1, <1>2
  <1>3. CASE a # b
    <2> DEFINE P(k) == a[k] # b[k] /\ \A j \in 1 .. (k - 1) : a[j] = b[j]
               i == CHOOSE k \in 1 .. 3 : P(k)
    <2>1. a[1] # b[1] \/ a[2] # b[2] \/ a[3] # b[3]
      BY <1>3
    <2> HIDE DEF a, b
    <2>2. \E k \in 1 .. 3 : P(k)
      <3>1. CASE a[1] # b[1]
        <4>1. P(1)
          BY <3>1
        <4> QED
          BY <4>1
      <3>2. CASE a[1] = b[1] /\ a[2] # b[2]
        <4>1. P(2)
          BY <3>2
        <4> QED
          BY <4>1
      <3>3. CASE a[1] = b[1] /\ a[2] = b[2] /\ a[3] # b[3]
        <4>1. P(3)
          BY <3>3
        <4> QED
          BY <4>1
      <3> QED
        BY <2>1, <3>1, <3>2, <3>3
    <2>3. i \in 1 .. 3 /\ P(i)
      BY <2>2, Zenon
    <2>4. ~(a[i] > b[i])
      <3>1. compareSemver(a, b) # 1
        BY DEF a, b
      <3> QED
        BY <1>3, <3>1 DEF compareSemver
    <2> HIDE DEF i
    <2> QED
      BY <1>1, <2>3, <2>4
  <1> QED
    BY <1>2, <1>3

(* A version that can be read is not newer than one it may be replaced by, *)
(* though that one may be read as something smaller.                       *)
LEMMA CompareIsOrder ==
    ASSUME NEW old \in Images, NEW new \in Images, Readable(old.version),
           compareTagsDowngrade(old, new)
    PROVE  NotOlder(old.version, new.version)
  <1> DEFINE v == old.version
             w == new.version
  <1>1. v \in Seq(Nat) /\ w \in Seq(Nat) /\ Len(v) \in {2, 3} /\ Len(w) \in {2, 3}
    BY ImagesAssumption DEF compareTagsDowngrade, HasVersion
  <1>2. v # <<>> /\ w # <<>>
    BY DEF compareTagsDowngrade, HasVersion
  <1>3. compareSemver(parseRavenVersion(v), parseRavenVersion(w)) # 1
    BY DEF compareTagsDowngrade
  <1>4. \A i \in DOMAIN v : v[i] <= MaxInt
    BY DEF Readable
  <1> HIDE DEF v, w
  <1>5. v[1] <= MaxInt /\ v[2] <= MaxInt /\ Patch(v) <= MaxInt
    BY <1>1, <1>4, MaxIntAssumption DEF Patch
  <1> DEFINE a1 == v[1]
             a2 == v[2]
             a3 == Patch(v)
             b1 == w[1]
             b2 == w[2]
             b3 == Patch(w)
  <1>6. /\ a1 \in Nat /\ a2 \in Nat /\ a3 \in Nat
        /\ b1 \in Nat /\ b2 \in Nat /\ b3 \in Nat
    BY <1>1, ParsedVersion
  <1>7. compareSemver(<<Atoi(a1), Atoi(a2), Atoi(a3)>>,
                      <<Atoi(b1), Atoi(b2), Atoi(b3)>>) # 1
    BY <1>1, <1>3, ParsedVersion
  <1>8. a1 <= MaxInt /\ a2 <= MaxInt /\ a3 <= MaxInt
    BY <1>5
  <1>11. NotOlder(v, w) <=> \/ v = w
                            \/ /\ v # <<>> /\ w # <<>>
                               /\ \/ a1 < b1
                                  \/ a1 = b1 /\ a2 < b2
                                  \/ a1 = b1 /\ a2 = b2 /\ a3 <= b3
    BY DEF NotOlder
  <1> HIDE DEF a1, a2, a3, b1, b2, b3
  <1>9. Atoi(a1) = a1 /\ Atoi(a2) = a2 /\ Atoi(a3) = a3
    BY <1>6, <1>8, AtoiReads
  <1>10. /\ Atoi(b1) \in Nat /\ Atoi(b2) \in Nat /\ Atoi(b3) \in Nat
         /\ Atoi(b1) <= b1 /\ Atoi(b2) <= b2 /\ Atoi(b3) <= b3
    BY <1>6, AtoiReads
  <1>12. \/ a1 < Atoi(b1)
         \/ a1 = Atoi(b1) /\ a2 < Atoi(b2)
         \/ a1 = Atoi(b1) /\ a2 = Atoi(b2) /\ a3 <= Atoi(b3)
    BY <1>6, <1>7, <1>9, <1>10, CompareTriples
  <1>13. \/ a1 < b1
         \/ a1 = b1 /\ a2 < b2
         \/ a1 = b1 /\ a2 = b2 /\ a3 <= b3
    BY <1>6, <1>10, <1>12
  <1> QED
    BY <1>2, <1>11, <1>13 DEF v, w

-----------------------------------------------------------------------------
(* The steps *)

(* At first there is no cluster and there are no objects.                  *)
LEMMA InitInv == Init => Inv
  <1> SUFFICES ASSUME Init PROVE Inv
    OBVIOUS
  <1>1. spec = NoCluster /\ last = "none" /\ updates = 0 /\ changes = 0
        /\ bootstrapped = FALSE
    BY DEF Init
  <1>2. /\ DOMAIN sts = Node /\ DOMAIN svc = Node
        /\ \A n \in Node : ~Exists(sts[n]) /\ ~Exists(svc[n])
        /\ ~Exists(ingress) /\ ~Exists(job)
    BY DEF Init, Exists
  <1>3. sec \in [Secrets -> Contents \cup {"canonical"}]
    BY DEF Init, Intact
  <1>4. TypeInv
    <2>1. bootstrapped \in BOOLEAN
      BY <1>1
    <2>2. updates \in 0 .. MaxEdits /\ changes \in 0 .. MaxEdits
      BY <1>1, EditsAssumption
    <2> QED
      BY <1>1, <1>2, <1>3, <2>1, <2>2 DEF TypeInv, TypeOK
  <1>5. Admitted /\ Untouched /\ Fresh
    BY <1>1, <1>2 DEF Admitted, Untouched, Fresh
  <1>6. ValidIsBuildable /\ FreshIsAccepted
    BY <1>1 DEF ValidIsBuildable, FreshIsAccepted
  <1> QED
    BY <1>4, <1>5, <1>6 DEF Inv

(* Create: all validators have looked at the spec, and there are no        *)
(* objects yet.                                                            *)
LEMMA CreateStep == Inv /\ Create => Inv'
  <1> SUFFICES ASSUME Inv, Create PROVE Inv'
    OBVIOUS
  <1>1. spec' \in Cluster
    BY WrittenTyped DEF Create
  <1>2. spec' # NoCluster
    BY <1>1, ClusterExists
  <1>3. RunCreate(spec', sec) /\ spec = NoCluster
    BY DEF Create
  <1>4. RunCreate(spec', Intact) /\ nodeCreate(spec', Intact)
    BY <1>1, <1>3, IntactSuffices DEF RunCreate
  <1>5. UNCHANGED <<sec, sts, svc, ingress, job, bootstrapped, last, updates,
                    changes>>
    BY DEF Create, objects
  <1>6. /\ last' = "none" /\ updates' = 0 /\ ~Exists(job')
        /\ \A n \in Node : ~Exists(sts'[n])
    BY <1>3, <1>5 DEF Inv, Untouched
  <1>7. TypeInv'
    <2>1. spec'.mode \in {"LetsEncrypt", "None"}
      BY <1>1 DEF Cluster
    <2> QED
      BY <1>1, <1>5, <2>1 DEF Inv, TypeInv, TypeOK
  <1>8. Admitted'
    BY <1>4 DEF Admitted, RunCreate, imageCreate
  <1>9. Untouched'
    BY <1>2 DEF Untouched
  <1>10. Fresh'
    <2>1. DOMAIN spec'.nodes \subseteq Node
      BY <1>1, NodesOf
    <2> QED
      BY <1>4, <1>6, <2>1 DEF Fresh, Nodes
  <1>11. ValidIsBuildable' /\ FreshIsAccepted'
    BY <1>6 DEF ValidIsBuildable, FreshIsAccepted
  <1> QED
    BY <1>7, <1>8, <1>9, <1>10, <1>11 DEF Inv

(* Update: image, nodes, access and storage are validated again.           *)
LEMMA UpdateStep == Inv /\ Update => Inv'
  <1> SUFFICES ASSUME Inv, Update PROVE Inv'
    OBVIOUS
  <1>1. spec' \in Cluster
    BY WrittenTyped DEF Update, Inv, TypeInv
  <1>2. spec' # NoCluster
    BY <1>1, ClusterExists
  <1>3. RunUpdate(spec, spec', sec)
    BY DEF Update
  <1>4. nodeCreate(spec', Intact)
    BY <1>1, <1>3, IntactSuffices DEF RunUpdate
  <1>5. UNCHANGED <<sec, sts, svc, ingress, job, bootstrapped, changes>>
    BY DEF Update, objects
  <1>6. last' = "none" /\ updates' = updates + 1 /\ updates + changes < MaxEdits
    BY DEF Update
  <1>7. updates \in Nat /\ changes \in Nat /\ MaxEdits \in Nat
    BY EditsAssumption DEF Inv, TypeInv, TypeOK
  <1>8. updates' \in 0 .. MaxEdits /\ updates' # 0
    BY <1>6, <1>7
  <1>9. TypeInv'
    <2>1. spec'.mode \in {"LetsEncrypt", "None"}
      BY <1>1 DEF Cluster
    <2> QED
      BY <1>1, <1>5, <1>6, <1>8, <2>1 DEF Inv, TypeInv, TypeOK
  <1>10. Admitted'
    BY <1>3, <1>4 DEF Admitted, RunUpdate, imageUpdate, imageCreate
  <1>11. Untouched' /\ Fresh'
    BY <1>2, <1>8 DEF Untouched, Fresh
  <1>12. ValidIsBuildable' /\ FreshIsAccepted'
    BY <1>6 DEF ValidIsBuildable, FreshIsAccepted
  <1> QED
    BY <1>9, <1>10, <1>11, <1>12 DEF Inv

(* A change of a secret and the end of the bootstrap leave spec and        *)
(* objects alone.                                                          *)
LEMMA QuietStep ==
    ASSUME Inv, TypeOK',
           UNCHANGED <<spec, sts, svc, ingress, job, last, updates>>
    PROVE  Inv'
  <1>1. TypeInv'
    BY DEF Inv, TypeInv
  <1>2. Admitted' /\ Untouched'
    BY DEF Inv, Admitted, Untouched
  <1>3. Fresh'
    BY DEF Inv, Fresh, Nodes
  <1>4. ValidIsBuildable' /\ FreshIsAccepted'
    BY DEF Inv, ValidIsBuildable, FreshIsAccepted
  <1> QED
    BY <1>1, <1>2, <1>3, <1>4 DEF Inv

(* ChangeSecret                                                            *)
LEMMA ChangeSecretStep == Inv /\ ChangeSecret => Inv'
  <1> SUFFICES ASSUME Inv, ChangeSecret PROVE Inv'
    OBVIOUS
  <1>1. UNCHANGED <<spec, sts, svc, ingress, job, bootstrapped, last, updates>>
    BY DEF ChangeSecret, objects
  <1>2. sec' \in [Secrets -> Contents \cup {"canonical"}]
    BY DEF ChangeSecret, Inv, TypeInv, TypeOK
  <1>3. changes' \in 0 .. MaxEdits
    BY EditsAssumption DEF ChangeSecret, Inv, TypeInv, TypeOK
  <1>4. TypeOK'
    BY <1>1, <1>2, <1>3 DEF Inv, TypeInv, TypeOK
  <1> QED
    BY <1>1, <1>4, QuietStep

(* Bootstrap                                                               *)
LEMMA BootstrapStep == Inv /\ Bootstrap => Inv'
  <1> SUFFICES ASSUME Inv, Bootstrap PROVE Inv'
    OBVIOUS
  <1>1. UNCHANGED <<spec, sec, sts, svc, ingress, job, last, updates, changes>>
        /\ bootstrapped' = TRUE
    BY DEF Bootstrap, objects
  <1>2. TypeOK'
    BY <1>1 DEF Inv, TypeInv, TypeOK
  <1> QED
    BY <1>1, <1>2, QuietStep

(* What a node's step does, and why it fails when it does.                 *)
LEMMA NodeOutcome ==
    ASSUME NEW n \in Node, DOMAIN sts = Node, DOMAIN svc = Node, ApplyNode(n)
    PROVE  LET m == BuildStatefulSet(spec, spec.nodes[n])
           IN  /\ last' \in {"panic", "rejected", "applied"}
               /\ last' = "panic" => \/ StatefulSetPanics(spec, spec.nodes[n])
                                     \/ ServicePanics(spec)
               /\ last' = "rejected" => \/ ~ValidTag(spec.nodes[n].tag)
                                        \/ Collides(spec, m)
                                        \/ ClaimsChange(sts[n], m)
               /\ DOMAIN sts' = Node /\ DOMAIN svc' = Node
               /\ \A k \in Node : sts'[k] = sts[k] \/ (k = n /\ sts'[k] = m)
               /\ \A k \in Node : \/ svc'[k] = svc[k]
                                   \/ svc'[k] = BuildService(spec, spec.nodes[n])
  <1> DEFINE m == BuildStatefulSet(spec, spec.nodes[n])
             panic == StatefulSetPanics(spec, spec.nodes[n])
             misnamed == ~ValidTag(m.name)
             collides == Collides(spec, m)
             changed == ClaimsChange(sts[n], m)
             service == BuildService(spec, spec.nodes[n])
  <1>1. \/ panic /\ last' = "panic" /\ UNCHANGED <<sts, svc>>
        \/ /\ misnamed \/ collides \/ changed
           /\ last' = "rejected" /\ UNCHANGED <<sts, svc>>
        \/ /\ sts' = [sts EXCEPT ![n] = m]
           /\ \/ ServicePanics(spec) /\ last' = "panic" /\ UNCHANGED svc
              \/ svc' = [svc EXCEPT ![n] = service] /\ last' = "applied"
    BY Zenon DEF ApplyNode
  <1>0. m.name = spec.nodes[n].tag
    BY DEF BuildStatefulSet
  <1> HIDE DEF m, panic, misnamed, collides, changed, service
  <1>2. /\ last' \in {"panic", "rejected", "applied"}
        /\ last' = "panic" => panic \/ ServicePanics(spec)
        /\ last' = "rejected" => misnamed \/ collides \/ changed
    BY <1>1
  <1>3. /\ DOMAIN sts' = Node /\ DOMAIN svc' = Node
        /\ \A k \in Node : sts'[k] = sts[k] \/ (k = n /\ sts'[k] = m)
        /\ \A k \in Node : svc'[k] = svc[k] \/ svc'[k] = service
    BY <1>1
  <1> QED
    BY <1>0, <1>2, <1>3 DEF m, panic, misnamed, collides, changed, service

(* How a reconcile ends, and why: a panic is never the fault of a spec     *)
(* that could be created, a rejection never that of a spec as it was       *)
(* created, unless it chooses names or its tags are not part of one.       *)
LEMMA ReconcileOutcome ==
    ASSUME Inv, Reconcile
    PROVE  /\ last' \in {"panic", "rejected", "gates", "nothing", "applied"}
           /\ last' = "panic" => ~RunCreate(spec, Intact)
           /\ last' = "rejected" =>
                 updates > 0 \/ ChoosesNames(spec) \/ ~ValidTags(spec)
  <1>1. spec # NoCluster /\ spec \in Cluster
    BY DEF Reconcile, Inv, TypeInv
  <1>2. Nodes \subseteq Node
    BY <1>1, NodesOf DEF Nodes
  <1>3. updates \in Nat
    BY DEF Inv, TypeInv, TypeOK
  <1>4. updates = 0 => RunCreate(spec, Intact)
    BY <1>1 DEF Inv, Fresh
  <1>5. CASE BeforeNodes # "ok" /\ last' = BeforeNodes
    <2>1. BeforeNodes \in {"panic", "rejected", "gates"}
      BY <1>5 DEF BeforeNodes
    <2>6. IngressFails(spec) /\ ~IngressPanics(spec) => ~ValidTags(spec)
      BY DEF IngressFails
    <2>2. BeforeNodes = "panic" =>
            \/ IngressShouldAct(spec) /\ IngressPanics(spec)
            \/ JobPanics(spec)
            \/ HTTPSClientPanics(spec, sec)
      BY DEF BeforeNodes, IngressFails
    <2>3. BeforeNodes = "panic" => ~RunCreate(spec, Intact)
      BY <1>1, <2>2, CreatableBuilds
    <2>4. BeforeNodes = "rejected" => JobRejected(spec) \/ ~ValidTags(spec)
      BY <2>6 DEF BeforeNodes
    <2>5. updates = 0 => ~JobRejected(spec)
      BY <1>1, <1>4, CreatableBuilds DEF JobRejected, Inv, Fresh
    <2> QED
      BY <1>3, <1>5, <2>1, <2>3, <2>4, <2>5
  <1>6. CASE \E n \in Nodes : Selected(n) /\ ApplyNode(n)
    <2>1. PICK n \in Nodes : ApplyNode(n)
      BY <1>6
    <2> DEFINE m == BuildStatefulSet(spec, spec.nodes[n])
    <2>2. DOMAIN sts = Node /\ DOMAIN svc = Node
      BY DEF Inv, TypeInv
    <2> HIDE DEF m
    <2>3. /\ last' \in {"panic", "rejected", "applied"}
          /\ last' = "panic" => \/ StatefulSetPanics(spec, spec.nodes[n])
                                \/ ServicePanics(spec)
          /\ last' = "rejected" => \/ ~ValidTag(spec.nodes[n].tag)
                                   \/ Collides(spec, m)
                                   \/ ClaimsChange(sts[n], m)
      BY <1>2, <2>1, <2>2, NodeOutcome DEF m
    <2>4. last' = "panic" => ~RunCreate(spec, Intact)
      BY <1>1, <2>3, CreatableBuilds DEF Nodes
    <2>5. ~ChoosesNames(spec) => ~Collides(spec, m)
      BY <1>1, PlainAccepted DEF m
    <2>6. updates = 0 => ~ClaimsChange(sts[n], m)
      BY <1>1 DEF Inv, Fresh, ClaimsChange, m
    <2>7. ~ValidTag(spec.nodes[n].tag) => ~ValidTags(spec)
      BY DEF ValidTags, Nodes
    <2> QED
      BY <1>3, <2>3, <2>4, <2>5, <2>6, <2>7
  <1>7. CASE last' = "nothing"
    BY <1>7
  <1> QED
    BY <1>5, <1>6, <1>7 DEF Reconcile

(* Reconcile: what is applied was built from the present spec.             *)
LEMMA ReconcileStep == Inv /\ Reconcile => Inv'
  <1> SUFFICES ASSUME Inv, Reconcile PROVE Inv'
    OBVIOUS
  <1>1. spec # NoCluster /\ spec \in Cluster
    BY DEF Reconcile, Inv, TypeInv
  <1>2. UNCHANGED <<spec, sec, bootstrapped, updates, changes>>
    BY DEF Reconcile
  <1>3. Nodes \subseteq Node
    BY <1>1, NodesOf DEF Nodes
  <1>4. /\ DOMAIN sts' = Node /\ DOMAIN svc' = Node
        /\ \A k \in Node : \/ sts'[k] = sts[k]
                            \/ sts'[k] = BuildStatefulSet(spec, spec.nodes[k])
        /\ \A k \in Node : \/ svc'[k] = svc[k]
                            \/ \E n \in Nodes :
                                  svc'[k] = BuildService(spec, spec.nodes[n])
    <2>1. DOMAIN sts = Node /\ DOMAIN svc = Node
      BY DEF Inv, TypeInv
    <2>2. CASE UNCHANGED <<sts, svc>>
      BY <2>1, <2>2
    <2>3. CASE \E n \in Nodes : Selected(n) /\ ApplyNode(n)
      <3>1. PICK n \in Nodes : ApplyNode(n)
        BY <2>3
      <3> QED
        BY <1>3, <2>1, <3>1, NodeOutcome
    <2> QED
      BY <2>2, <2>3 DEF Reconcile
  <1>5. job' = job \/ job' = BuildJob(spec)
    BY DEF Reconcile, ApplyJob
  <1>6. Exists(ingress') => ingress'.class = "nginx"
    <2>1. IngressShouldAct(spec) => BuildIngress(spec).class = "nginx"
      BY <1>1, AccessKinds DEF IngressShouldAct, BuildIngress
    <2>2. \/ ingress' = ingress
          \/ IngressShouldAct(spec) /\ ingress' = BuildIngress(spec)
      BY DEF Reconcile, ApplyIngress
    <2> QED
      BY <2>1, <2>2 DEF Inv, TypeInv, TypeOK
  <1>7. TypeInv'
    <2>1. spec.image \in Images
      BY <1>1 DEF Cluster
    <2>2. \A n : BuildStatefulSet(spec, spec.nodes[n]).image \in Images
      BY <2>1 DEF BuildStatefulSet
    <2>3. \A n : BuildService(spec, spec.nodes[n]).type \in {"ClusterIP", "LoadBalancer"}
      BY <1>1, AccessKinds
    <2>4. \A n \in Node :
             /\ Exists(sts'[n]) => sts'[n].image \in Images
             /\ Exists(svc'[n]) => svc'[n].type \in {"ClusterIP", "LoadBalancer"}
      BY <1>4, <2>2, <2>3 DEF Inv, TypeInv, TypeOK
    <2>5. last' \in {"none", "panic", "rejected", "gates", "nothing", "applied"}
      BY ReconcileOutcome
    <2> QED
      BY <1>2, <1>4, <1>6, <2>4, <2>5 DEF Inv, TypeInv, TypeOK
  <1>8. Admitted' /\ Untouched'
    BY <1>1, <1>2 DEF Inv, Admitted, Untouched
  <1>9. Fresh'
    BY <1>2, <1>3, <1>4, <1>5 DEF Inv, Fresh, Nodes
  <1>10. ValidIsBuildable' /\ FreshIsAccepted'
    <2>1. ChoosesNames(spec') = ChoosesNames(spec)
          /\ ValidTags(spec') = ValidTags(spec)
          /\ RunCreate(spec', Intact) = RunCreate(spec, Intact)
      BY <1>2
    <2> QED
      BY <1>2, <2>1, ReconcileOutcome DEF ValidIsBuildable, FreshIsAccepted
  <1> QED
    BY <1>7, <1>8, <1>9, <1>10 DEF Inv

-----------------------------------------------------------------------------
(* The theorems *)

(* The invariant holds throughout.                                         *)
LEMMA Invariance == Spec => []Inv
  <1>1. Init => Inv
    BY InitInv
  <1>2. Inv /\ [Next]_vars => Inv'
    <2> SUFFICES ASSUME Inv, [Next]_vars PROVE Inv'
      OBVIOUS
    <2>1. CASE UNCHANGED vars
      <3>1. UNCHANGED <<spec, sec, sts, svc, ingress, job, bootstrapped, last,
                        updates, changes>>
        BY <2>1 DEF vars
      <3>2. TypeOK'
        BY <3>1 DEF Inv, TypeInv, TypeOK
      <3> QED
        BY <3>1, <3>2, QuietStep
    <2>2. CASE Next
      BY <2>2, CreateStep, UpdateStep, ChangeSecretStep, ReconcileStep,
         BootstrapStep DEF Next
    <2> QED
      BY <2>1, <2>2
  <1> QED
    BY <1>1, <1>2, PTL DEF Spec

(* The variables keep their types, whatever is edited.                     *)
THEOREM TypeCorrect == Spec => []TypeOK
  <1>1. Inv => TypeOK
    BY DEF Inv, TypeInv
  <1> QED
    BY <1>1, Invariance, PTL

(* No reconcile of a spec that the webhook would let one create panics:    *)
(* CreatableBuilds, through any edits of the spec before it.               *)
THEOREM ValidNeverPanics == Spec => []ValidIsBuildable
  <1>1. Inv => ValidIsBuildable
    BY DEF Inv
  <1> QED
    BY <1>1, Invariance, PTL

(* A cluster that nobody updated is never refused for a collision or for a *)
(* change of something immutable, unless its user chose names or paths.    *)
THEOREM FreshNeverRejected == Spec => []FreshIsAccepted
  <1>1. Inv => FreshIsAccepted
    BY DEF Inv
  <1> QED
    BY <1>1, Invariance, PTL

(* What the pods and the Job mount is what the conditions wait for.        *)
THEOREM MountsAreExpected == Spec => []MountedIsExpected
  <1>1. Inv => MountedIsExpected
    <2> SUFFICES ASSUME Inv, spec # NoCluster, RunCreate(spec, Intact)
                 PROVE  LET expected == getExpectedSecretNames(spec) \cup {spec.license}
                        IN  /\ \A n \in Nodes :
                                  sts[n] = BuildStatefulSet(spec, spec.nodes[n])
                                    => MountedBy(sts[n]) \subseteq expected
                            /\ job = BuildJob(spec) => MountedBy(job) \subseteq expected
      BY DEF MountedIsExpected
    <2>1. spec \in Cluster
      BY DEF Inv, TypeInv
    <2>2. MountedBy(BuildJob(spec)) \subseteq getExpectedSecretNames(spec)
      BY <2>1, JobMounts
    <2>3. \A n \in Nodes : MountedBy(BuildStatefulSet(spec, spec.nodes[n]))
                             \subseteq getExpectedSecretNames(spec) \cup {spec.license}
      BY <2>1, PodMounts DEF Nodes
    <2> QED
      BY <2>2, <2>3
  <1> QED
    BY <1>1, Invariance, PTL

(* With its secrets in place a cluster is an admissible update of itself,  *)
(* unless its tag has no version.                                          *)
THEOREM AlwaysEditable == Spec => []NeverLockedOut
  <1>1. Inv => NeverLockedOut
    <2> SUFFICES ASSUME Inv, spec # NoCluster, HasVersion(spec.image)
                 PROVE  RunUpdate(spec, spec, Intact)
      BY DEF NeverLockedOut
    <2>1. compareTagsDowngrade(spec.image, spec.image)
      BY DEF compareTagsDowngrade, compareSemver
    <2>2. generalUpdate(spec, spec)
      BY DEF generalUpdate, ValidateImmutableOnceCreated
    <2> QED
      BY <2>1, <2>2
      DEF Inv, Admitted, RunUpdate, imageUpdate, imageCreate
  <1> QED
    BY <1>1, Invariance, PTL

(* No step takes a cluster from a version whose numbers fit into an int to *)
(* an older one, for any images: only an update changes the image, and     *)
(* compareTagsDowngrade orders the versions as they are read.              *)
THEOREM VersionsOnlyRise == Spec => NeverDowngraded
  <1>1. Inv /\ [Next]_vars =>
          [spec # NoCluster /\ Readable(spec.image.version) =>
             NotOlder(spec.image.version, spec'.image.version)]_vars
    <2> SUFFICES ASSUME Inv, Next, spec # NoCluster, Readable(spec.image.version)
                 PROVE  NotOlder(spec.image.version, spec'.image.version)
      OBVIOUS
    <2>1. CASE spec' = spec
      BY <2>1 DEF NotOlder
    <2>2. CASE Update
      <3>1. spec \in Cluster /\ spec' \in Cluster
        BY <2>2, WrittenTyped DEF Update, Inv, TypeInv
      <3>2. spec.image \in Images /\ spec'.image \in Images
        BY <3>1 DEF Cluster
      <3>3. compareTagsDowngrade(spec.image, spec'.image)
        BY <2>2 DEF Update, RunUpdate, imageUpdate
      <3> QED
        BY <3>2, <3>3, CompareIsOrder
    <2> QED
      BY <2>1, <2>2 DEF Next, Create, ChangeSecret, Reconcile, Bootstrap
  <1> QED
    BY <1>1, Invariance, PTL DEF Spec, NeverDowngraded

=============================================================================
