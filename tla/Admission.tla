----------------------------- MODULE Admission -----------------------------
(***************************************************************************)
(* The admission webhook of the RavenDBCluster (pkg/webhook): the          *)
(* validators of image, general fields, nodes, external access and storage,*)
(* run on a create and, partly, again on an update. No mutator exists.     *)
(*                                                                         *)
(* A cluster c is a record with the fields of its spec:                    *)
(*   image        its form, its build and its version, a sequence of two   *)
(*                or three numbers, empty when the tag has no leading one  *)
(*   mode, email (set or not), domain                                      *)
(*   license, client, clusterCert, caCert    names of secrets, or Unset    *)
(*   nodes        a sequence of [tag, url, tcp, cert]                      *)
(*   access       type, contexts set, class, nodes mapped, passthrough     *)
(*   data, vac    size of the data volume, its VolumeAttributesClass       *)
(*   logs, audit  path of each, or Unset when there is no such volume      *)
(*   volumes      a sequence of additional volumes                         *)
(*   env          names of additional environment variables; they are the  *)
(*                keys of a map, so ValidateEnv finds no duplicate         *)
(* and sec is a function from names of secrets to what is in them.         *)
(***************************************************************************)
EXTENDS Integers, Sequences

CONSTANT MaxInt    \* the largest int, 2^63 - 1 in the operator's builds

ASSUME MaxIntAssumption == MaxInt \in Nat \ {0}

Unset == ""

Unique(s) == \A i, j \in DOMAIN s : s[i] = s[j] => i = j

-----------------------------------------------------------------------------
(* image_validator.go *)

validateImage(image) == image.form = "pinned"

(* A number beyond the largest int is read as that one: the error that     *)
(* strconv.Atoi returns with it is dropped.                                *)
Atoi(n) == IF n > MaxInt THEN MaxInt ELSE n

(* A tag may leave out the patch number.                                   *)
parseRavenVersion(v) ==
    <<Atoi(v[1]), Atoi(v[2]), IF Len(v) = 3 THEN Atoi(v[3]) ELSE 0>>

HasVersion(image) == image.version # <<>>

(* Mutation: a larger major number does not settle it.                     *)
compareSemverByMinor(a, b) ==
    IF a[2] # b[2] THEN (IF a[2] > b[2] THEN 1 ELSE -1)
    ELSE IF a[3] > b[3] THEN 1 ELSE IF a[3] < b[3] THEN -1 ELSE 0

(* The first number that differs decides.                                  *)
compareSemver(a, b) ==
    IF a = b THEN 0
    ELSE LET i == CHOOSE k \in 1 .. 3 :
                     a[k] # b[k] /\ \A j \in 1 .. (k - 1) : a[j] = b[j]
         IN  IF a[i] > b[i] THEN 1 ELSE -1

(* Mutation: an update has to raise the version.                           *)
compareTagsMustRise(old, new) ==
    /\ HasVersion(old) /\ HasVersion(new)
    /\ compareSemver(parseRavenVersion(old.version),
                     parseRavenVersion(new.version)) = -1

compareTagsDowngrade(old, new) ==
    /\ HasVersion(old) /\ HasVersion(new)
    /\ compareSemver(parseRavenVersion(old.version),
                     parseRavenVersion(new.version)) # 1

imageCreate(c) == validateImage(c.image)

imageUpdate(old, c) ==
    /\ imageCreate(c)
    /\ compareTagsDowngrade(old.image, c.image)

-----------------------------------------------------------------------------
(* general_validator.go *)

(* A secret holds one file with the right suffix, under whatever name.     *)
ValidSecret(sec, name) == sec[name] \in {"canonical", "renamed"}

(* Mutation: mode LetsEncrypt does without an email.                       *)
ValidateEmailOptional(c) == c.email => c.mode = "LetsEncrypt"

ValidateEmail(c) == c.email = (c.mode = "LetsEncrypt")

ValidateClusterCertSecret(c, sec) ==
    IF c.mode = "LetsEncrypt"
    THEN c.clusterCert = Unset
    ELSE c.clusterCert # Unset /\ ValidSecret(sec, c.clusterCert)

ValidateCACertSecret(c, sec) ==
    IF c.mode = "LetsEncrypt"
    THEN c.caCert = Unset
    ELSE c.caCert # Unset /\ ValidSecret(sec, c.caCert)

ValidateDomain(c) == c.domain \notin {"localhost", "10.0.0.1"}

generalCreate(c, sec) ==
    /\ ValidateEmail(c)
    /\ ValidSecret(sec, c.license)
    /\ ValidateClusterCertSecret(c, sec)
    /\ ValidateDomain(c)
    /\ ValidSecret(sec, c.client)
    /\ ValidateCACertSecret(c, sec)

Tags(c) == [i \in DOMAIN c.nodes |-> c.nodes[i].tag]
PublicUrls(c) == [i \in DOMAIN c.nodes |-> c.nodes[i].url]
TcpUrls(c) == [i \in DOMAIN c.nodes |-> c.nodes[i].tcp]

ValidateImmutableOnceCreated(old, c) ==
    /\ old.mode = c.mode
    /\ old.domain = c.domain
    /\ Tags(old) = Tags(c)
    /\ PublicUrls(old) = PublicUrls(c)
    /\ TcpUrls(old) = TcpUrls(c)

(* Nothing but the immutable fields is looked at again.                    *)
generalUpdate(old, c) == ValidateImmutableOnceCreated(old, c)

-----------------------------------------------------------------------------
(* node_validator.go; a URL has a scheme, the tag its host starts with     *)
(* (followed by "-tcp" in a TCP URL), a domain, and a port or 0.           *)

ValidatePortsConsistency(c) ==
    c.access.type = "ingress-controller" =>
       \A i, j \in DOMAIN c.nodes : c.nodes[i].url.port = c.nodes[j].tcp.port

ValidateNodeUrl(url, scheme, tag, domain) ==
    /\ url.scheme = scheme
    /\ url.tag = tag
    /\ url.domain = domain
    /\ url.port # 0

ValidateNodeCertSecret(c, sec, node) ==
    IF c.mode = "LetsEncrypt"
    THEN node.cert # Unset /\ ValidSecret(sec, node.cert)
    ELSE node.cert = Unset

nodeCreate(c, sec) ==
    /\ c.nodes # <<>>
    /\ Unique(Tags(c))
    /\ Unique(PublicUrls(c) \o TcpUrls(c))
    /\ ValidatePortsConsistency(c)
    /\ \A i \in DOMAIN c.nodes :
          /\ ValidateNodeUrl(c.nodes[i].url, "https", c.nodes[i].tag, c.domain)
          /\ ValidateNodeUrl(c.nodes[i].tcp, "tcp", c.nodes[i].tag, c.domain)
          /\ ValidateNodeCertSecret(c, sec, c.nodes[i])

-----------------------------------------------------------------------------
(* ea_validator.go and storage_validator.go *)

(* The type has its own context and no other, and no annotation turns the  *)
(* passthrough of TLS off.                                                 *)
eaCreate(c) ==
    c.access.type # "none" =>
       /\ c.access.contexts = {c.access.type}
       /\ c.access.type = "ingress-controller" => c.access.passthrough

IsAbs(path) == path # "relative"

ValidateAdditionalVolumes(vols) ==
    /\ Unique([i \in DOMAIN vols |-> vols[i].name])
    /\ \A i \in DOMAIN vols :
          /\ IsAbs(vols[i].path)
          /\ vols[i].subPath # "directory/file"
          /\ \E s \in {"configMap", "secret", "persistentVolumeClaim"} :
                vols[i].sources = {s}

storageCreate(c) ==
    /\ c.vac # "missing"
    /\ IsAbs(c.logs) /\ IsAbs(c.audit)
    /\ ValidateAdditionalVolumes(c.volumes)

-----------------------------------------------------------------------------
(* validator.go: every validator has to agree. Those of nodes, access and  *)
(* storage check the new cluster on an update as they do on a create.      *)

RunCreate(c, sec) ==
    /\ imageCreate(c)
    /\ generalCreate(c, sec)
    /\ nodeCreate(c, sec)
    /\ eaCreate(c)
    /\ storageCreate(c)

RunUpdate(old, c, sec) ==
    /\ imageUpdate(old, c)
    /\ generalUpdate(old, c)
    /\ nodeCreate(c, sec)
    /\ eaCreate(c)
    /\ storageCreate(c)

=============================================================================
