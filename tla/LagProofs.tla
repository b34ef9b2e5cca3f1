----------------------------- MODULE LagProofs -----------------------------
(***************************************************************************)
(* With a cache that lags behind, but for less time than a pod takes to    *)
(* change its state (ShortLag), no write of the operator puts an older     *)
(* image on a node, as long as the API server does not fail as well.       *)
(*                                                                         *)
(* The danger is a copy that shows a node unmarked and with an image it no *)
(* longer has: Act would write that image back. Such copies do come about, *)
(* when an upgrade is resumed on a mark that is cleared already and when a *)
(* node is created a second time; what saves the node is that its pod does *)
(* not answer before the cache has caught up, so that its gates fail.      *)
(*                                                                         *)
(* With a cache that lags for as long as it likes and an API server that   *)
(* fails, the same holds, and what is reported as upgraded has the image,  *)
(* as long as Act finds the mark of each upgrade in the copy it reads.     *)
(***************************************************************************)
EXTENDS RollingUpgradeProofs

(* The cached copy would freeze the node at an image from before.          *)
Misread(n) ==
    Exists(seen[n]) /\ ~Marked(seen[n]) /\ seen[n].image < sts[n].image

(* A copy is older than its original, and only nodes seen are marked.      *)
Behind ==
    \A n \in Node : /\ seen[n].image <= sts[n].image
                    /\ Marked(sts[n]) \/ Marked(seen[n]) => Exists(seen[n])

(* Between the two reads of the selected node: a node that is not outdated *)
(* by the first one has the image of the run.                              *)
Loaded ==
    pc = "loadMark" => /\ Exists(seen[sel])
                       /\ ~upgrading => seen[sel].image = want

(* A node whose StatefulSet has not been seen has never run.               *)
UnseenDown ==
    \A n \in Node : ~Exists(seen[n]) => /\ pod[n].image = NoImage
                                        /\ pod[n].state = "down"

(* A node that is misread is down, unless it has just been written.        *)
MisreadDown ==
    \A n \in Node :
       Misread(n) => ~NodeAlive(n) \/ (n = sel /\ pc \in {"applySvc", "postAlive"})

(* The node that is about to be written is not misread.                    *)
ReadRight == pc \in {"preConn", "preDB", "mark", "applySts"} => ~Misread(sel)

(* Only an upgrade is gated. A node that is applied without one has the    *)
(* image already, or is marked neither in the API server nor in the cache; *)
(* one that is misread afterwards has not run yet.                         *)
AppliedPlainly ==
    /\ pc \in {"preAlive", "preConn", "preDB", "mark"} => upgrading
    /\ pc = "applySts" /\ ~upgrading =>
          \/ sts[sel].image = want
          \/ ~Marked(seen[sel]) /\ ~Marked(sts[sel])
    /\ pc = "applySvc" /\ ~upgrading /\ Misread(sel) => pod[sel].state = "down"

LagInv ==
    /\ ImagesBounded
    /\ Behind
    /\ Loaded
    /\ UnseenDown
    /\ MisreadDown
    /\ ReadRight
    /\ AppliedPlainly

-----------------------------------------------------------------------------
(* Copies and originals *)

(* A copy that is up to date is not misread, and no copy is when the cache *)
(* has caught up. Images are integers.                                     *)
LEMMA CopyFacts ==
    ASSUME TypeOK
    PROVE  /\ \A n \in Node : sts[n].image \in Int /\ seen[n].image \in Int
           /\ \A n \in Node : seen[n] = sts[n] => ~Misread(n)
           /\ ShortLag /\ CaughtUp => \A n \in Node : ~Misread(n)
<1>1. \A n \in Node : sts[n].image \in Int /\ seen[n].image \in Int
  BY ImageInt DEF TypeOK, StatefulSet
<1>2. \A n \in Node : seen[n] = sts[n] => ~Misread(n)
  BY <1>1 DEF Misread
<1> QED BY <1>1, <1>2 DEF CaughtUp

(* What is seen exists.                                                    *)
LEMMA SeenExists ==
    ASSUME TypeOK, Behind, NEW n \in Node, Exists(seen[n])
    PROVE  Exists(sts[n])
<1>1. seen[n].image \in Image \cup {NoImage} /\ sts[n].image \in Int
  BY CopyFacts DEF TypeOK, StatefulSet
<1>2. seen[n].image <= sts[n].image /\ seen[n].image # NoImage
  BY DEF Behind, Exists
<1> QED BY <1>1, <1>2, ImageAssumption DEF Exists, Image, NoImage

(* A write changes one StatefulSet; its copy then is the version before,   *)
(* or the new one.                                                         *)
LEMMA StoreFacts ==
    ASSUME TypeOK, NEW n \in Node, NEW v \in StatefulSet, Store(n, v)
    PROVE  /\ \A m \in Node : m # n => sts'[m] = sts[m] /\ seen'[m] = seen[m]
           /\ sts'[n] = v
           /\ \/ v = sts[n] /\ seen'[n] = seen[n]
              \/ v # sts[n] /\ (seen'[n] = sts[n] \/ seen'[n] = v)
<1>1. CASE v = sts[n]
  BY <1>1 DEF Store, TypeOK
<1>2. CASE v # sts[n]
  BY <1>2 DEF Store, TypeOK
<1> QED BY <1>1, <1>2

(* A write of the selected node that does not lower its image keeps copies *)
(* behind and images bounded, and leaves other nodes as they were; without *)
(* a new image it makes no copy that would be misread.                     *)
LEMMA WriteKeeps ==
    ASSUME TypeInv, ImagesBounded, Behind, pc \in Working,
           NEW v \in StatefulSet, Store(sel, v),
           sts[sel].image <= v.image, v.image <= want,
           Marked(v) => Exists(seen[sel]),
           spec' = spec, want' = want, sel' = sel
    PROVE  /\ ImagesBounded' /\ Behind'
           /\ \A n \in Node : Exists(seen[n]) => Exists(seen'[n])
           /\ \A n \in Node : n # sel => (Misread(n)' => Misread(n))
           /\ v.image = sts[sel].image => (Misread(sel)' => Misread(sel))
           /\ \A n \in Node : sts[n].image <= sts'[n].image
<1> USE DEF TypeInv
<1>1. sel \in Node /\ want \in Image /\ spec \in Image /\ pc # "idle"
  BY DEF RunOK, TypeOK, Working
<1>2. /\ \A m \in Node : m # sel => sts'[m] = sts[m] /\ seen'[m] = seen[m]
      /\ sts'[sel] = v
      /\ \/ v = sts[sel] /\ seen'[sel] = seen[sel]
         \/ v # sts[sel] /\ (seen'[sel] = sts[sel] \/ seen'[sel] = v)
  BY <1>1, StoreFacts
<1>3. /\ \A n \in Node : sts[n].image \in Int /\ seen[n].image \in Int
      /\ v.image \in Int /\ want \in Int /\ spec \in Int
  BY <1>1, CopyFacts, ImageInt DEF StatefulSet
<1>4. ImagesBounded'
  <2>1. \A n \in Node : sts'[n].image <= want /\ sts'[n].image \in Int
    BY <1>1, <1>2, <1>3 DEF ImagesBounded
  <2>2. want <= spec
    BY <1>1 DEF ImagesBounded
  <2>3. \A n \in Node : sts'[n].image <= spec
    BY <1>3, <2>1, <2>2
  <2> QED BY <2>1, <2>2, <2>3 DEF ImagesBounded
<1>5. \A n \in Node : Exists(seen[n]) => Exists(seen'[n])
  <2>1. Exists(seen[sel]) => Exists(sts[sel])
    BY <1>1, SeenExists
  <2>2. Exists(sts[sel]) => Exists(v)
    <3>1. sts[sel].image \in Image \cup {NoImage} /\ v.image \in Image \cup {NoImage}
      BY <1>1 DEF TypeOK, StatefulSet
    <3> QED BY <1>3, <3>1, ImageAssumption DEF Exists, Image, NoImage
  <2> QED BY <1>1, <1>2, <2>1, <2>2
<1>6. Behind'
  <2>1. \A n \in Node : seen'[n].image <= sts'[n].image
    BY <1>1, <1>2, <1>3 DEF Behind
  <2>2. \A n \in Node : Marked(sts'[n]) \/ Marked(seen'[n]) => Exists(seen'[n])
    BY <1>1, <1>2, <1>5 DEF Behind
  <2> QED BY <2>1, <2>2 DEF Behind
<1>8. \A n \in Node : n # sel => (Misread(n)' => Misread(n))
  BY <1>2 DEF Misread
<1>9. v.image = sts[sel].image => (Misread(sel)' => Misread(sel))
  <2> SUFFICES ASSUME v.image = sts[sel].image,
                      Exists(seen'[sel]) /\ ~Marked(seen'[sel])
                        /\ seen'[sel].image < sts'[sel].image
               PROVE  Misread(sel)
    <3>1. Misread(sel)' => Exists(seen'[sel]) /\ ~Marked(seen'[sel])
                             /\ seen'[sel].image < sts'[sel].image
      BY DEF Misread
    <3> QED BY <3>1
  <2> QED BY <1>1, <1>2, <1>3 DEF Misread
<1>10. \A n \in Node : sts[n].image <= sts'[n].image
  BY <1>1, <1>2, <1>3
<1> QED BY <1>4, <1>5, <1>6, <1>8, <1>9, <1>10

-----------------------------------------------------------------------------
(* The steps *)

(* Without failures of the API server nothing is hit by one.               *)
LEMMA NoApiTrouble == "api" \notin Troubles => ~Hit("api")
BY DEF Hit

(* What a step that leaves StatefulSets, pods and Services alone must      *)
(* show: the part of the invariant that is about the run.                  *)
LEMMA LagQuiet ==
    ASSUME LagInv, UNCHANGED <<sts, seen, svc, pod>>,
           ImagesBounded', Loaded', MisreadDown', ReadRight', AppliedPlainly'
    PROVE  LagInv'
<1>1. Behind' /\ UnseenDown'
  BY DEF LagInv, Behind, UnseenDown
<1> QED BY <1>1 DEF LagInv

(* Selecting a node, and loading it. A misread node goes to its gates.     *)
LEMMA LagSearch ==
    ASSUME "api" \notin Troubles, TypeInv, LagInv,
           \/ BuildGates \/ BuildGatesFails
           \/ FindInFlight \/ FindMissing \/ FindMismatch
           \/ Load \/ LoadMark \/ LoadFails
    PROVE  LagInv'
<1> USE DEF TypeInv
<1>1. UNCHANGED <<sts, seen, svc, pod, formed, spec>>
  BY DEF BuildGates, BuildGatesFails, FindInFlight, FindMissing, FindMismatch,
         Load, LoadMark, LoadFails, kube, world
<1>2. pc \notin {"applySvc", "postAlive"}
  BY DEF BuildGates, BuildGatesFails, FindInFlight, FindMissing, FindMismatch,
         Load, LoadMark, LoadFails, Go
<1>3. MisreadDown'
  BY <1>1, <1>2 DEF LagInv, MisreadDown, Misread, NodeAlive
<1>4. CASE BuildGates
  <2>1. pc' = "inflight" /\ want' = spec
    BY <1>4 DEF BuildGates, Go
  <2>2. spec <= spec
    BY ImageInt DEF TypeOK
  <2>3. ImagesBounded'
    BY <1>1, <2>1, <2>2 DEF LagInv, ImagesBounded
  <2> QED BY <1>1, <1>3, <2>1, <2>3, LagQuiet DEF Loaded, ReadRight, AppliedPlainly
<1>5. CASE FindInFlight \/ FindMissing \/ FindMismatch
  <2>1. pc' \in {"load", "missing", "mismatch", "report"} /\ want' = want
        /\ pc # "idle"
    BY <1>5 DEF FindInFlight, FindMissing, FindMismatch, Select
  <2>2. ImagesBounded'
    BY <1>1, <2>1 DEF LagInv, ImagesBounded
  <2> QED BY <1>1, <1>3, <2>1, <2>2, LagQuiet DEF Loaded, ReadRight, AppliedPlainly
<1>6. CASE Load
  <2>1. /\ pc = "load" /\ sel' = sel /\ want' = want
        /\ pc' \in {"loadMark", "applySts"}
        /\ pc' = "loadMark" => /\ Exists(seen[sel])
                               /\ ~upgrading' => seen[sel].image = want
        /\ pc' = "applySts" => ~Exists(seen[sel])
    BY <1>6 DEF Load
  <2>2. sel \in Node
    BY <2>1 DEF RunOK, Working
  <2>3. ImagesBounded' /\ Loaded'
    BY <1>1, <2>1 DEF LagInv, ImagesBounded, Loaded
  <2>4. ReadRight'
    BY <1>1, <2>1 DEF ReadRight, Misread
  <2>5. AppliedPlainly'
    BY <1>1, <2>1, <2>2 DEF LagInv, Behind, AppliedPlainly
  <2> QED BY <1>1, <1>3, <2>3, <2>4, <2>5, LagQuiet
<1>7. CASE LoadMark
  <2>1. /\ pc = "loadMark" /\ sel' = sel /\ want' = want
        /\ pc' \in {"preAlive", "applySts"}
        /\ pc' = "preAlive" => upgrading'
        /\ pc' = "applySts" => ~upgrading' \/ Marked(seen[sel])
    BY <1>7 DEF LoadMark
  <2>2. ~upgrading' => seen[sel].image = want
    BY <1>7 DEF LoadMark, isUpgrading, LagInv, Loaded
  <2>3. sel \in Node /\ want \in Image
    BY <2>1 DEF RunOK, Working
  <2>4. /\ seen[sel].image <= sts[sel].image /\ sts[sel].image <= want
        /\ want \in Int /\ sts[sel].image \in Int /\ seen[sel].image \in Int
    BY <2>1, <2>3, CopyFacts, ImageInt DEF LagInv, Behind, ImagesBounded
  <2>5. ~upgrading' => sts[sel].image = want
    BY <2>2, <2>4
  <2>6. pc' = "applySts" => ~Misread(sel)
    BY <2>1, <2>2, <2>4 DEF Misread
  <2>7. ImagesBounded' /\ Loaded'
    BY <1>1, <2>1 DEF LagInv, ImagesBounded, Loaded
  <2>8. ReadRight'
    BY <1>1, <2>1, <2>6 DEF ReadRight, Misread
  <2>9. AppliedPlainly'
    BY <1>1, <2>1, <2>5 DEF AppliedPlainly
  <2> QED BY <1>1, <1>3, <2>7, <2>8, <2>9, LagQuiet
<1> QED BY <1>4, <1>5, <1>6, <1>7, NoApiTrouble DEF BuildGatesFails, LoadFails

(* The gates. A misread node does not get through its first gate before    *)
(* the upgrade; after it, the grace period or the failure ends the lag's   *)
(* effect.                                                                 *)
LEMMA LagGates ==
    ASSUME "api" \notin Troubles, ShortLag, TypeInv, LagInv,
           preNode \/ preNodeFails \/ postNode \/ postNodeFails
    PROVE  LagInv'
<1> USE DEF TypeInv
<1>1. UNCHANGED <<sts, seen, svc, pod, formed, spec, want, sel, upgrading>>
      /\ pc # "idle" /\ pc \in Working
  BY DEF preNode, preNodeFails, postNode, postNodeFails, Gate, GateFails, Go,
         kube, world, Working
<1>2. sel \in Node
  BY <1>1 DEF RunOK
<1>3. ~Hit("api")
  BY NoApiTrouble
<1>4. pc' \in {"preConn", "preDB", "mark", "postConn", "postDB", "clear", "report"}
  BY DEF preNode, preNodeFails, postNode, postNodeFails, Gate, GateFails, Go
<1>5. pc' \in {"preConn", "preDB", "mark"} =>
         \/ pc = "preAlive" /\ NodeAlive(sel)
         \/ pc \in {"preConn", "preDB"}
  BY DEF preNode, preNodeFails, postNode, postNodeFails, Gate, GateFails, Go
<1>6. pc = "postAlive" => CaughtUp \/ ~NodeAlive(sel)
  BY <1>3 DEF preNode, preNodeFails, postNode, postNodeFails, Gate, GateFails, Go
<1>7. pc # "applySvc"
  BY DEF preNode, preNodeFails, postNode, postNodeFails, Gate, GateFails, Go
<1>8. \A n \in Node : Misread(n) => ~NodeAlive(n)
  BY <1>2, <1>6, <1>7, CopyFacts DEF LagInv, MisreadDown
<1>9. pc' \in {"preConn", "preDB", "mark"} => ~Misread(sel)
  BY <1>2, <1>5, <1>8 DEF LagInv, ReadRight
<1>10. MisreadDown'
  BY <1>1, <1>8 DEF MisreadDown, Misread, NodeAlive
<1>11. ReadRight'
  BY <1>1, <1>4, <1>9 DEF ReadRight, Misread
<1>12. ImagesBounded' /\ Loaded'
  BY <1>1, <1>4 DEF LagInv, ImagesBounded, Loaded
<1>13. AppliedPlainly'
  BY <1>1, <1>4, <1>5 DEF LagInv, AppliedPlainly
<1> QED BY <1>1, <1>10, <1>11, <1>12, <1>13, LagQuiet

(* The annotation is written without touching the image.                   *)
LEMMA AnnotatedFacts ==
    ASSUME TypeInv, ImagesBounded, Behind, pc \in Working,
           NEW i \in {want, NoImage}
    PROVE  LET v == Annotated(sel, i)
           IN  /\ v \in StatefulSet
               /\ v.image = sts[sel].image
               /\ sts[sel].image <= v.image /\ v.image <= want
               /\ Marked(v) => Exists(seen[sel])
<1> USE DEF TypeInv
<1> DEFINE v == Annotated(sel, i)
<1>1. sel \in Node /\ want \in Image /\ pc # "idle"
  BY DEF RunOK, Working
<1>2. v \in StatefulSet
  BY <1>1, StoredType
<1>3. sts[sel] \in StatefulSet /\ sts[sel].image \in Int /\ sts[sel].image <= want
  BY <1>1, CopyFacts DEF TypeOK, ImagesBounded
<1>4. v.image = sts[sel].image
  BY <1>3 DEF Annotated, StatefulSet
<1>5. v = sts[sel] \/ Exists(seen[sel])
  BY DEF Annotated
<1>6. Marked(v) => Exists(seen[sel])
  BY <1>1, <1>5 DEF Behind
<1> HIDE DEF v
<1>7. sts[sel].image <= v.image /\ v.image <= want
  BY <1>3, <1>4
<1> QED BY <1>2, <1>4, <1>6, <1>7 DEF v

(* What is applied to a node that is not misread has its image or, for a   *)
(* node that is marked or has not been seen, the image of the run.         *)
LEMMA ActFacts ==
    ASSUME TypeInv, ImagesBounded, Behind, pc = "applySts", ~Misread(sel)
    PROVE  LET v == Act(sel)
           IN  /\ v \in StatefulSet
               /\ sts[sel].image <= v.image /\ v.image <= want
               /\ Marked(v) => Exists(seen[sel])
               /\ \/ v.image = sts[sel].image
                  \/ ~Exists(seen[sel]) \/ Marked(seen[sel])
               /\ Exists(seen[sel]) /\ Marked(seen[sel]) => v.image = want
<1> USE DEF TypeInv
<1> DEFINE v == Act(sel)
<1>1. sel \in Node /\ want \in Image
  BY DEF RunOK, Working
<1>2. v \in StatefulSet
  BY <1>1, StoredType
<1>3. /\ sts[sel] \in StatefulSet /\ want \in Int
      /\ sts[sel].image \in Int /\ seen[sel].image \in Int
      /\ sts[sel].image <= want /\ seen[sel].image <= sts[sel].image
      /\ ~Misread(sel)
  BY <1>1, CopyFacts, ImageInt DEF TypeOK, ImagesBounded, Behind
<1>4. CASE ~Exists(seen[sel])
  <2>1. v.image = want /\ v.mark = sts[sel].mark
    BY <1>3, <1>4 DEF Act, StatefulSet
  <2>2. ~Marked(sts[sel])
    BY <1>1, <1>4 DEF Behind
  <2> HIDE DEF v
  <2>3. ~Marked(v)
    BY <2>1, <2>2 DEF Marked
  <2> QED BY <1>2, <1>3, <1>4, <2>1, <2>3 DEF v
<1>5. CASE Exists(seen[sel]) /\ Marked(seen[sel])
  <2>1. v.image = want
    BY <1>5 DEF Act
  <2> HIDE DEF v
  <2> QED BY <1>2, <1>3, <1>5, <2>1 DEF v
<1>6. CASE Exists(seen[sel]) /\ ~Marked(seen[sel])
  <2>1. v.image = seen[sel].image
    BY <1>3, <1>6 DEF Act, StatefulSet
  <2>2. seen[sel].image = sts[sel].image
    BY <1>3, <1>6 DEF Misread
  <2> HIDE DEF v
  <2> QED BY <1>2, <1>3, <1>6, <2>1, <2>2 DEF v
<1> QED BY <1>4, <1>5, <1>6

(* The writes of a run: mark, apply and clear. Only the second one can     *)
(* leave its node misread.                                                 *)
LEMMA LagWrites ==
    ASSUME "api" \notin Troubles, TypeInv, LagInv,
           \/ Mark \/ MarkFails
           \/ ApplyStatefulSet \/ ApplyStatefulSetFails
           \/ Clear
    PROVE  /\ LagInv'
           /\ \A n \in Node : sts[n].image <= sts'[n].image
<1> USE DEF TypeInv
<1>1. /\ UNCHANGED <<svc, spec, pod, want, sel, upgrading>>
      /\ pc \in {"mark", "applySts", "clear"}
      /\ pc \in Working
  BY DEF Mark, MarkFails, ApplyStatefulSet, ApplyStatefulSetFails, Clear, Go,
         world, Working
<1>2. ~Hit("api")
  BY NoApiTrouble
<1>3. sel \in Node /\ want \in Image
  BY <1>1 DEF RunOK
<1>4. \A n \in Node : Misread(n) => ~NodeAlive(n)
  BY <1>1 DEF LagInv, MisreadDown
<1>5. CASE ApplyStatefulSet
  <2> DEFINE v == Act(sel)
  <2>1. pc = "applySts" /\ pc' = "applySvc" /\ Store(sel, v)
    BY <1>5 DEF ApplyStatefulSet, Go
  <2>2. /\ v \in StatefulSet
        /\ sts[sel].image <= v.image /\ v.image <= want
        /\ Marked(v) => Exists(seen[sel])
        /\ \/ v.image = sts[sel].image
           \/ ~Exists(seen[sel]) \/ Marked(seen[sel])
    BY <2>1, ActFacts DEF LagInv, ReadRight
  <2> HIDE DEF v
  <2>3. /\ ImagesBounded' /\ Behind'
        /\ \A n \in Node : Exists(seen[n]) => Exists(seen'[n])
        /\ \A n \in Node : n # sel => (Misread(n)' => Misread(n))
        /\ v.image = sts[sel].image => (Misread(sel)' => Misread(sel))
        /\ \A n \in Node : sts[n].image <= sts'[n].image
    BY <1>1, <2>1, <2>2, WriteKeeps DEF LagInv
  <2>4. MisreadDown'
    BY <1>1, <1>4, <2>1, <2>3 DEF MisreadDown, NodeAlive
  <2>5. ~upgrading /\ Misread(sel)' => pod[sel].state = "down"
    <3> SUFFICES ASSUME ~upgrading, Misread(sel)' PROVE pod[sel].state = "down"
      OBVIOUS
    <3>1. v.image # sts[sel].image
      BY <2>1, <2>3 DEF LagInv, ReadRight
    <3>2. sts[sel].image # want
      <4>1. v.image \in Int /\ sts[sel].image \in Int /\ want \in Int
        BY <1>3, <2>2, CopyFacts, ImageInt DEF StatefulSet
      <4> QED BY <2>2, <3>1, <4>1
    <3>3. ~Marked(seen[sel])
      BY <2>1, <3>2 DEF LagInv, AppliedPlainly
    <3> QED BY <1>3, <2>2, <3>1, <3>3 DEF LagInv, UnseenDown
  <2>6. ReadRight' /\ AppliedPlainly'
    BY <1>1, <2>1, <2>5 DEF ReadRight, AppliedPlainly
  <2>7. UnseenDown' /\ Loaded'
    BY <1>1, <2>1, <2>3 DEF LagInv, UnseenDown, Loaded
  <2> QED BY <2>3, <2>4, <2>6, <2>7 DEF LagInv
<1>6. ASSUME NEW i \in {want, NoImage}, Store(sel, Annotated(sel, i)),
             \/ pc = "mark" /\ pc' = "applySts"
             \/ pc = "clear" /\ pc' = "report"
      PROVE  LagInv' /\ \A n \in Node : sts[n].image <= sts'[n].image
  <2> DEFINE v == Annotated(sel, i)
  <2>1. /\ v \in StatefulSet
        /\ v.image = sts[sel].image
        /\ sts[sel].image <= v.image /\ v.image <= want
        /\ Marked(v) => Exists(seen[sel])
    BY <1>1, AnnotatedFacts DEF LagInv
  <2>2. Store(sel, v)
    BY <1>6
  <2> HIDE DEF v
  <2>3. /\ ImagesBounded' /\ Behind'
        /\ \A n \in Node : Exists(seen[n]) => Exists(seen'[n])
        /\ \A n \in Node : n # sel => (Misread(n)' => Misread(n))
        /\ Misread(sel)' => Misread(sel)
        /\ \A n \in Node : sts[n].image <= sts'[n].image
    BY <1>1, <2>1, <2>2, WriteKeeps DEF LagInv
  <2>4. \A n \in Node : Misread(n)' => Misread(n)
    <3> SUFFICES ASSUME NEW n \in Node, n = sel, Misread(n)' PROVE Misread(n)
      BY <2>3
    <3>1. Misread(sel)'
      BY <1>1 DEF Misread
    <3> QED BY <2>3, <3>1
  <2>5. MisreadDown'
    BY <1>1, <1>4, <2>4 DEF MisreadDown, NodeAlive
  <2>6. ReadRight'
    BY <1>6, <2>3 DEF LagInv, ReadRight
  <2>7. AppliedPlainly'
    BY <1>1, <1>6 DEF LagInv, AppliedPlainly
  <2>8. UnseenDown' /\ Loaded'
    BY <1>1, <1>6, <2>3 DEF LagInv, UnseenDown, Loaded
  <2> QED BY <2>3, <2>5, <2>6, <2>7, <2>8 DEF LagInv
<1>7. CASE Mark
  BY <1>6, <1>7 DEF Mark, Go
<1>8. CASE Clear
  BY <1>2, <1>6, <1>8 DEF Clear, Go, StoreFails
<1> QED BY <1>2, <1>5, <1>7, <1>8 DEF MarkFails, ApplyStatefulSetFails, StoreFails

(* The Service of the node. One that is applied without an upgrade and is  *)
(* misread has no pod yet that could answer.                               *)
LEMMA LagService ==
    ASSUME "api" \notin Troubles, TypeInv, LagInv,
           ApplyService \/ ApplyServiceFails
    PROVE  LagInv'
<1> USE DEF TypeInv
<1>1. ApplyService
  BY NoApiTrouble DEF ApplyServiceFails
<1>2. /\ UNCHANGED <<sts, seen, spec, pod, want, sel, upgrading>>
      /\ pc = "applySvc" /\ svc' = [svc EXCEPT ![sel] = TRUE]
      /\ pc' \in {"postAlive", "report"}
      /\ upgrading => pc' = "postAlive"
  BY <1>1 DEF ApplyService, Go, world
<1>3. sel \in Node
  BY <1>2 DEF RunOK, Working
<1>4. \A n \in Node : n # sel => (svc'[n] <=> svc[n])
  BY <1>2, <1>3 DEF TypeOK
<1>5. ASSUME NEW n \in Node, Misread(n)
      PROVE  \/ ~(svc'[n] /\ pod[n].state # "down")
             \/ n = sel /\ pc' = "postAlive"
  <2>1. CASE n # sel
    BY <1>4, <1>5, <2>1 DEF LagInv, MisreadDown, NodeAlive
  <2>2. CASE n = sel
    BY <1>2, <1>5, <2>2 DEF LagInv, AppliedPlainly
  <2> QED BY <2>1, <2>2
<1>6. MisreadDown'
  <2>1. \A n \in Node : Misread(n)' => Misread(n)
    BY <1>2 DEF Misread
  <2> QED BY <1>2, <1>5, <2>1 DEF MisreadDown, NodeAlive
<1>7. Behind' /\ UnseenDown'
  BY <1>2 DEF LagInv, Behind, UnseenDown
<1>8. ImagesBounded' /\ Loaded' /\ ReadRight' /\ AppliedPlainly'
  BY <1>2 DEF LagInv, ImagesBounded, Loaded, ReadRight, AppliedPlainly
<1> QED BY <1>6, <1>7, <1>8 DEF LagInv

(* Pods change only when the cache has caught up, which leaves no node     *)
(* misread.                                                                *)
LEMMA LagPods ==
    ASSUME ShortLag, TypeInv, LagInv,
           \/ Bootstrap
           \/ \E n \in Node : \/ ReplacePod(n) \/ StartPod(n)
                              \/ LoadDatabases(n) \/ FailPod(n)
    PROVE  LagInv'
<1> USE DEF TypeInv
<1>1. /\ UNCHANGED <<sts, seen, svc, spec, pc, want, sel, upgrading>>
      /\ CaughtUp
  BY DEF Bootstrap, ReplacePod, StartPod, LoadDatabases, FailPod, kube, run
<1>2. seen = sts /\ \A n \in Node : ~Misread(n)
  BY <1>1, CopyFacts DEF CaughtUp
<1>3. UnseenDown'
  <2>1. CASE Bootstrap
    BY <1>1, <2>1 DEF Bootstrap, LagInv, UnseenDown
  <2>2. ASSUME NEW n \in Node,
               ReplacePod(n) \/ StartPod(n) \/ LoadDatabases(n) \/ FailPod(n)
        PROVE  UnseenDown'
    <3>1. Exists(seen[n])
      BY <1>2, <2>2
         DEF ReplacePod, StartPod, LoadDatabases, FailPod, Outdated, LagInv, UnseenDown
    <3>2. \A m \in Node : m # n => pod'[m] = pod[m]
      BY <2>2 DEF ReplacePod, StartPod, LoadDatabases, FailPod, TypeOK
    <3> QED BY <1>1, <3>1, <3>2 DEF LagInv, UnseenDown
  <2> QED BY <2>1, <2>2
<1>4. \A n \in Node : ~Misread(n)'
  BY <1>1, <1>2 DEF Misread
<1>5. MisreadDown'
  BY <1>4 DEF MisreadDown
<1>6. ReadRight' /\ AppliedPlainly'
  <2>1. pc \in Working => sel \in Node
    BY DEF RunOK
  <2>2. pc \in {"preConn", "preDB", "mark", "applySts", "applySvc"} => ~Misread(sel)'
    BY <1>1, <1>4, <2>1 DEF Working, Misread
  <2> QED BY <1>1, <2>2 DEF LagInv, ReadRight, AppliedPlainly
<1>7. ImagesBounded' /\ Behind' /\ Loaded'
  BY <1>1 DEF LagInv, ImagesBounded, Behind, Loaded
<1> QED BY <1>3, <1>5, <1>6, <1>7 DEF LagInv

(* A copy that is brought up to date is not misread any more.              *)
LEMMA LagDeliver ==
    ASSUME TypeInv, LagInv, NEW n \in Node, Deliver(n)
    PROVE  LagInv'
<1> USE DEF TypeInv
<1>1. /\ UNCHANGED <<sts, svc, spec, pod, pc, want, sel, upgrading>>
      /\ seen' = [seen EXCEPT ![n] = sts[n]]
  BY DEF Deliver, world, run
<1>2. seen'[n] = sts[n] /\ \A m \in Node : m # n => seen'[m] = seen[m]
  BY <1>1 DEF TypeOK
<1>3. \A m \in Node : Exists(seen[m]) => Exists(seen'[m])
  BY <1>2, SeenExists DEF LagInv
<1>4. \A m \in Node : sts[m].image \in Int
  BY CopyFacts
<1>5. \A m \in Node : Misread(m)' => Misread(m) /\ m # n
  BY <1>1, <1>2, <1>4 DEF Misread
<1>6. Behind'
  BY <1>1, <1>2, <1>3, <1>4 DEF LagInv, Behind
<1>7. UnseenDown'
  BY <1>1, <1>3 DEF LagInv, UnseenDown
<1>8. MisreadDown'
  BY <1>1, <1>5 DEF LagInv, MisreadDown, NodeAlive
<1>9. pc \in Working => sel \in Node /\ (Misread(sel)' => Misread(sel))
  <2> SUFFICES ASSUME pc \in Working PROVE sel \in Node /\ (Misread(sel)' => Misread(sel))
    OBVIOUS
  <2>1. sel \in Node
    BY DEF RunOK
  <2>2. Misread(sel)' => Exists(seen'[sel]) /\ ~Marked(seen'[sel])
                           /\ seen'[sel].image < sts[sel].image
    BY <1>1 DEF Misread
  <2> QED BY <1>2, <1>4, <2>1, <2>2 DEF Misread
<1>10. ReadRight'
  BY <1>1, <1>9 DEF LagInv, ReadRight, Working
<1>11. AppliedPlainly'
  <2>1. pc = "applySts" => seen'[sel] = seen[sel] \/ seen'[sel] = sts[sel]
    BY <1>2, <1>9 DEF Working
  <2> QED BY <1>1, <1>9, <2>1 DEF LagInv, AppliedPlainly, Working
<1>12. ImagesBounded'
  BY <1>1 DEF LagInv, ImagesBounded
<1>13. Loaded'
  <2> SUFFICES ASSUME pc = "loadMark"
               PROVE  /\ Exists(seen'[sel])
                      /\ ~upgrading => seen'[sel].image = want
    BY <1>1 DEF Loaded
  <2>1. sel \in Node /\ want \in Image
    BY DEF RunOK, Working
  <2>2. /\ seen[sel].image <= sts[sel].image /\ sts[sel].image <= want
        /\ want \in Int /\ sts[sel].image \in Int /\ seen[sel].image \in Int
    BY <2>1, CopyFacts, ImageInt DEF LagInv, Behind, ImagesBounded
  <2> QED BY <1>2, <1>3, <2>1, <2>2 DEF LagInv, Loaded
<1> QED BY <1>6, <1>7, <1>8, <1>10, <1>11, <1>12, <1>13 DEF LagInv

(* The end of a run, by a report or by a crash, which also empties the     *)
(* cache, a new image in the spec, and what only the observer sees.        *)
LEMMA LagEnd ==
    ASSUME TypeInv, LagInv,
           \/ Report \/ Crash \/ RaiseImage
           \/ \E n \in Node : Observe(n)
           \/ UNCHANGED vars
    PROVE  LagInv'
<1> USE DEF TypeInv
<1>1. CASE Report
  <2>1. UNCHANGED <<sts, seen, svc, pod, spec>> /\ pc = "report" /\ pc' = "idle"
    BY <1>1 DEF Report, EndRun, kube, world
  <2>2. ImagesBounded' /\ Loaded' /\ ReadRight' /\ AppliedPlainly'
    BY <2>1 DEF LagInv, ImagesBounded, Loaded, ReadRight, AppliedPlainly
  <2>3. MisreadDown'
    BY <2>1 DEF LagInv, MisreadDown, Misread, NodeAlive
  <2> QED BY <2>1, <2>2, <2>3, LagQuiet
<1>2. CASE Crash
  <2>1. UNCHANGED <<sts, svc, pod, spec>> /\ seen' = sts /\ pc' = "idle"
    BY <1>2 DEF Crash, EndRun, world
  <2>2. ImagesBounded' /\ Loaded' /\ ReadRight' /\ AppliedPlainly'
    BY <2>1 DEF LagInv, ImagesBounded, Loaded, ReadRight, AppliedPlainly
  <2>3. \A n \in Node : sts[n].image \in Int /\ (Exists(seen[n]) => Exists(sts[n]))
    BY CopyFacts, SeenExists DEF LagInv
  <2>4. Behind' /\ UnseenDown'
    BY <2>1, <2>3 DEF LagInv, Behind, UnseenDown
  <2>5. MisreadDown'
    BY <2>1, <2>3 DEF MisreadDown, Misread
  <2> QED BY <2>2, <2>4, <2>5 DEF LagInv
<1>3. CASE RaiseImage
  <2>1. /\ UNCHANGED <<sts, seen, svc, pod, pc, want, sel, upgrading>>
        /\ spec' \in Image /\ spec' > spec
    BY <1>3 DEF RaiseImage, kube, run
  <2>2. spec \in Int /\ spec' \in Int /\ (pc # "idle" => want \in Int)
        /\ \A n \in Node : sts[n].image \in Int
    BY <2>1, ImageInt, CopyFacts DEF TypeOK, RunOK
  <2>3. ImagesBounded'
    BY <2>1, <2>2 DEF LagInv, ImagesBounded
  <2>4. Loaded' /\ MisreadDown' /\ ReadRight' /\ AppliedPlainly'
    BY <2>1 DEF LagInv, Loaded, MisreadDown, ReadRight, AppliedPlainly, Misread, NodeAlive
  <2> QED BY <2>1, <2>3, <2>4, LagQuiet
<1>4. CASE UNCHANGED vars \/ \E n \in Node : Observe(n)
  <2>1. UNCHANGED <<sts, seen, svc, pod, spec, pc, want, sel, upgrading>>
    BY <1>4 DEF Observe, kube, run, vars
  <2>2. ImagesBounded' /\ Loaded' /\ MisreadDown' /\ ReadRight' /\ AppliedPlainly'
    BY <2>1 DEF LagInv, ImagesBounded, Loaded, MisreadDown, ReadRight, AppliedPlainly,
                Misread, NodeAlive
  <2> QED BY <2>1, <2>2, LagQuiet
<1> QED BY <1>1, <1>2, <1>3, <1>4

(* At first nothing is behind anything.                                    *)
LEMMA LagInit == Init => LagInv
<1> SUFFICES ASSUME Init PROVE LagInv
  OBVIOUS
<1>1. \A n \in Node : /\ sts[n].image = 0 /\ seen[n].image = 0
                      /\ ~Marked(sts[n]) /\ ~Marked(seen[n]) /\ ~Exists(seen[n])
                      /\ pod[n].image = NoImage /\ pod[n].state = "down"
  BY DEF Init, Absent, NoImage, Marked, Exists
<1>2. spec = 1 /\ pc = "idle"
  BY DEF Init
<1>3. Behind /\ UnseenDown /\ MisreadDown
  BY <1>1 DEF Behind, UnseenDown, MisreadDown, Misread
<1>4. ImagesBounded /\ Loaded /\ ReadRight /\ AppliedPlainly
  BY <1>1, <1>2 DEF ImagesBounded, Loaded, ReadRight, AppliedPlainly
<1> QED BY <1>3, <1>4 DEF LagInv

(* Every step keeps the invariant and lowers no image.                     *)
LEMMA LagStep ==
    ASSUME "api" \notin Troubles, ShortLag, TypeInv, LagInv, [Next]_vars
    PROVE  LagInv' /\ \A n \in Node : sts[n].image <= sts'[n].image
<1>1. \A n \in Node : sts[n].image <= sts[n].image
  BY CopyFacts DEF TypeInv
<1>2. CASE \/ Mark \/ MarkFails \/ ApplyStatefulSet \/ ApplyStatefulSetFails
           \/ Clear
  BY <1>2, LagWrites
<1>3. CASE \/ BuildGates \/ BuildGatesFails
           \/ FindInFlight \/ FindMissing \/ FindMismatch
           \/ Load \/ LoadMark \/ LoadFails
  <2>1. sts' = sts
    BY <1>3 DEF BuildGates, BuildGatesFails, FindInFlight, FindMissing,
                FindMismatch, Load, LoadMark, LoadFails, kube
  <2> QED BY <1>1, <1>3, <2>1, LagSearch
<1>4. CASE preNode \/ preNodeFails \/ postNode \/ postNodeFails
  <2>1. sts' = sts
    BY <1>4 DEF preNode, preNodeFails, postNode, postNodeFails, Gate, GateFails, kube
  <2> QED BY <1>1, <1>4, <2>1, LagGates
<1>5. CASE ApplyService \/ ApplyServiceFails
  <2>1. sts' = sts
    BY <1>5 DEF ApplyService, ApplyServiceFails
  <2> QED BY <1>1, <1>5, <2>1, LagService
<1>6. CASE \/ Report \/ Crash \/ RaiseImage
           \/ \E n \in Node : Observe(n)
           \/ UNCHANGED vars
  <2>1. sts' = sts
    BY <1>6 DEF Report, Crash, RaiseImage, Observe, vars, kube
  <2> QED BY <1>1, <1>6, <2>1, LagEnd
<1>7. ASSUME NEW n \in Node, Deliver(n)
      PROVE  LagInv' /\ sts' = sts
  BY <1>7, LagDeliver DEF Deliver
<1>8. CASE \/ Bootstrap
           \/ \E n \in Node : \/ ReplacePod(n) \/ StartPod(n)
                              \/ LoadDatabases(n) \/ FailPod(n)
  <2>1. sts' = sts
    BY <1>8 DEF Bootstrap, ReplacePod, StartPod, LoadDatabases, FailPod, kube
  <2> QED BY <1>1, <1>8, <2>1, LagPods
<1> QED
  BY <1>1, <1>2, <1>3, <1>4, <1>5, <1>6, <1>7, <1>8 DEF Next, Operator, World

-----------------------------------------------------------------------------
(* With a cache that lags for a short time, wherever the operator crashes  *)
(* and nodes fail, no write of the operator puts an older image on a node: *)
(* the freeze of StatefulSetActor.Act never writes back an image that the  *)
(* node no longer has.                                                     *)
THEOREM NeverRollsBackLagging ==
    ShortLag /\ "api" \notin Troubles => (Spec => NoRollback)
<1> SUFFICES ASSUME ShortLag, "api" \notin Troubles PROVE Spec => NoRollback
  OBVIOUS
<1>1. Init => TypeInv /\ LagInv
  BY TypeInit, LagInit
<1>2. TypeInv /\ LagInv /\ [Next]_vars => (TypeInv /\ LagInv)'
  BY TypeStep, LagStep
<1>3. TypeInv /\ LagInv /\ [Next]_vars =>
         [\A n \in Node : sts[n].image <= sts'[n].image]_vars
  BY LagStep
<1> QED BY <1>1, <1>2, <1>3, PTL DEF Spec, NoRollback

-----------------------------------------------------------------------------
(* Any lag and any trouble, when Act sees the marks. *)

(* A node that is applied without an upgrade is not misread.               *)
PlainReadRight == pc = "applySts" /\ ~upgrading => ~Misread(sel)

(* Once an upgrade has been applied its node has the image of the run.     *)
Given ==
    /\ pc = "applySvc" /\ upgrading => sts[sel].image = want
    /\ pc \in {"postAlive", "postConn", "postDB"} => sts[sel].image = want
    /\ outcome = "upgraded" =>
          pc \in {"clear", "report"} /\ sel \in Node /\ sts[sel].image = want

(* Only an upgrade is gated and marked.                                    *)
Gated == pc \in {"preAlive", "preConn", "preDB", "mark"} => upgrading

SeenInv ==
    /\ ImagesBounded
    /\ Behind
    /\ Loaded
    /\ Gated
    /\ PlainReadRight
    /\ Given
    /\ SuccessMeansRolled

(* A step that leaves StatefulSets, copies and statuses alone.             *)
LEMMA SeenQuiet ==
    ASSUME SeenInv, UNCHANGED <<sts, seen, status>>,
           ImagesBounded', Loaded', Gated', PlainReadRight', Given'
    PROVE  SeenInv'
BY DEF SeenInv, Behind, SuccessMeansRolled

(* Selecting and loading a node, its gates, its Service, a crash.          *)
LEMMA SeenRun ==
    ASSUME TypeInv, SeenInv,
           \/ BuildGates \/ BuildGatesFails
           \/ FindInFlight \/ FindMissing \/ FindMismatch
           \/ Load \/ LoadFails
           \/ preNode \/ preNodeFails \/ postNode \/ postNodeFails
           \/ ApplyService \/ ApplyServiceFails
    PROVE  SeenInv'
<1> USE DEF TypeInv, SeenInv
<1>1. UNCHANGED <<sts, seen, status, spec>>
  BY DEF BuildGates, BuildGatesFails, FindInFlight, FindMissing, FindMismatch,
         Load, LoadFails, preNode, preNodeFails, postNode, postNodeFails,
         Gate, GateFails, ApplyService, ApplyServiceFails, kube, world
<1>2. CASE BuildGates \/ BuildGatesFails
  <2>1. spec <= spec
    BY ImageInt DEF TypeOK
  <2> QED
    BY <1>1, <1>2, <2>1, SeenQuiet
       DEF BuildGates, BuildGatesFails, Go, ImagesBounded, Loaded, Gated, PlainReadRight, Given
<1>3. CASE FindInFlight \/ FindMissing \/ FindMismatch
  BY <1>1, <1>3, SeenQuiet
     DEF FindInFlight, FindMissing, FindMismatch, Select,
         ImagesBounded, Loaded, Gated, PlainReadRight, Given
<1>4. CASE Load
  BY <1>1, <1>4, SeenQuiet
     DEF Load, ImagesBounded, Loaded, Gated, PlainReadRight, Misread, Given
<1>5. CASE LoadFails
  BY <1>1, <1>5, SeenQuiet
     DEF LoadFails, Go, ImagesBounded, Loaded, Gated, PlainReadRight, Given
<1>6. CASE preNode \/ preNodeFails \/ postNode \/ postNodeFails
  <2>1. pc \in Working /\ UNCHANGED <<want, sel, upgrading>>
    BY <1>6 DEF preNode, preNodeFails, postNode, postNodeFails, Gate, GateFails, Go,
                Working
  <2>2. sel \in Node
    BY <2>1 DEF RunOK
  <2> QED
    BY <1>1, <1>6, <2>1, <2>2, SeenQuiet
       DEF preNode, preNodeFails, postNode, postNodeFails, Gate, GateFails, Go,
           ImagesBounded, Loaded, Gated, PlainReadRight, Given
<1>7. CASE ApplyService \/ ApplyServiceFails
  BY <1>1, <1>7, SeenQuiet
     DEF ApplyService, ApplyServiceFails, AfterApplyFailed, Go,
         ImagesBounded, Loaded, Gated, PlainReadRight, Given
<1> QED BY <1>2, <1>3, <1>4, <1>5, <1>6, <1>7

(* Reading the mark: a node that needs no upgrade has its image.           *)
LEMMA SeenLoadMark ==
    ASSUME TypeInv, SeenInv, LoadMark
    PROVE  SeenInv'
<1> USE DEF TypeInv, SeenInv
<1>1. /\ UNCHANGED <<sts, seen, status, spec, want, sel, outcome>>
      /\ pc = "loadMark" /\ pc' \in {"preAlive", "applySts"}
      /\ ~upgrading' => ~upgrading
  BY DEF LoadMark, isUpgrading, kube, world
<1>2. sel \in Node /\ want \in Image
  BY <1>1 DEF RunOK, Working
<1>3. /\ seen[sel].image <= sts[sel].image /\ sts[sel].image <= want
      /\ want \in Int /\ sts[sel].image \in Int /\ seen[sel].image \in Int
  BY <1>1, <1>2, CopyFacts, ImageInt DEF Behind, ImagesBounded
<1>4. PlainReadRight'
  BY <1>1, <1>3 DEF Loaded, PlainReadRight, Misread
<1> QED
  BY <1>1, <1>4, SeenQuiet DEF ImagesBounded, Loaded, Gated, Given, LoadMark

(* A write that does not lower the image of its node.                      *)
LEMMA SeenWrite ==
    ASSUME TypeInv, SeenInv, pc \in Working,
           NEW v \in StatefulSet, Store(sel, v),
           sts[sel].image <= v.image, v.image <= want,
           Marked(v) => Exists(seen[sel]),
           spec' = spec, want' = want, sel' = sel, upgrading' = upgrading,
           status' = status,
           \/ pc' = "applySts" /\ upgrading /\ outcome' # "upgraded"
           \/ pc' = "applySvc" /\ (upgrading => v.image = want) /\ outcome' # "upgraded"
           \/ pc' \in {"clear", "report"} /\ outcome' # "upgraded"
           \/ pc' = "report" /\ outcome' = outcome
    PROVE  SeenInv' /\ \A n \in Node : sts[n].image <= sts'[n].image
<1> USE DEF TypeInv, SeenInv
<1>1. sel \in Node /\ want \in Image
  BY DEF RunOK, Working
<1>2. /\ ImagesBounded' /\ Behind'
      /\ \A n \in Node : sts[n].image <= sts'[n].image
  BY WriteKeeps
<1>3. sts'[sel] = v /\ \A n \in Node : n # sel => sts'[n] = sts[n]
  BY <1>1, StoreFacts
<1>4. Loaded' /\ Gated' /\ PlainReadRight'
  BY DEF Loaded, Gated, PlainReadRight
<1>5. /\ sts[sel].image \in Int /\ v.image \in Int /\ want \in Int
      /\ \A n \in Node : sts[n].image \in Int /\ sts'[n].image \in Int
      /\ \A n \in Node : status[n].attempted \in Int
  BY <1>1, <1>3, CopyFacts, ImageInt DEF StatefulSet, TypeOK, NodeStatus
<1>6. Given'
  BY <1>1, <1>3, <1>5 DEF Given
<1>7. SuccessMeansRolled'
  <2> SUFFICES ASSUME NEW n \in Node, status[n].phase = "Created"
               PROVE  status[n].attempted <= sts'[n].image
    BY DEF SuccessMeansRolled
  <2>1. status[n].attempted <= sts[n].image
    BY DEF SuccessMeansRolled
  <2> QED BY <1>2, <1>5, <2>1
<1> QED BY <1>2, <1>4, <1>6, <1>7

(* The writes of a run. An upgrade is applied to a copy that is marked.    *)
LEMMA SeenWrites ==
    ASSUME TypeInv, SeenInv, MarkSeen,
           \/ Mark \/ MarkFails
           \/ ApplyStatefulSet \/ ApplyStatefulSetFails
           \/ Clear
    PROVE  SeenInv' /\ \A n \in Node : sts[n].image <= sts'[n].image
<1> USE DEF TypeInv, SeenInv
<1>1. /\ UNCHANGED <<spec, want, sel, upgrading, status>>
      /\ pc \in {"mark", "applySts", "clear"}
      /\ pc \in Working
  BY DEF Mark, MarkFails, ApplyStatefulSet, ApplyStatefulSetFails, Clear, Go,
         world, Working
<1>2. sel \in Node /\ want \in Image
  BY <1>1 DEF RunOK
<1>3. outcome = "upgraded" => pc = "clear"
  BY <1>1 DEF Given
<1>4. CASE UNCHANGED <<sts, seen>> /\ (MarkFails \/ ApplyStatefulSetFails \/ Clear)
  <2>1. /\ pc' \in {"clear", "report"}
        /\ outcome' # "upgraded" \/ (outcome' = outcome /\ pc' = "report")
    BY <1>4 DEF MarkFails, ApplyStatefulSetFails, AfterApplyFailed, Clear, Go
  <2>2. ImagesBounded' /\ Loaded' /\ Gated' /\ PlainReadRight' /\ Given'
    BY <1>1, <1>4, <2>1 DEF ImagesBounded, Loaded, Gated, PlainReadRight, Given
  <2>3. \A n \in Node : sts[n].image <= sts'[n].image
    BY <1>4, CopyFacts
  <2> QED BY <1>1, <1>4, <2>2, <2>3, SeenQuiet
<1>5. ASSUME NEW i \in {want, NoImage}, Store(sel, Annotated(sel, i)),
             \/ /\ pc' = "applySts" /\ upgrading /\ outcome' # "upgraded"
             \/ pc' \in {"clear", "report"} /\ outcome' # "upgraded"
             \/ pc' = "report" /\ outcome' = outcome
      PROVE  SeenInv' /\ \A n \in Node : sts[n].image <= sts'[n].image
  <2> DEFINE v == Annotated(sel, i)
  <2>1. /\ v \in StatefulSet
        /\ sts[sel].image <= v.image /\ v.image <= want
        /\ Marked(v) => Exists(seen[sel])
    BY <1>1, AnnotatedFacts
  <2>2. Store(sel, v)
    BY <1>5
  <2> HIDE DEF v
  <2> QED BY <1>1, <1>5, <2>1, <2>2, SeenWrite
<1>6. ASSUME Store(sel, Act(sel)), ApplyStatefulSet \/ ApplyStatefulSetFails
      PROVE  SeenInv' /\ \A n \in Node : sts[n].image <= sts'[n].image
  <2> DEFINE v == Act(sel)
  <2>1. /\ pc = "applySts" /\ pc' \in {"applySvc", "clear", "report"}
        /\ pc' = "report" => ~upgrading
        /\ pc' = "applySvc" => outcome' = outcome
        /\ pc' # "applySvc" => outcome' = "failed"
    BY <1>6 DEF ApplyStatefulSet, ApplyStatefulSetFails, AfterApplyFailed, Go
  <2>2. upgrading => Marked(seen[sel]) /\ Exists(seen[sel])
    BY <1>2, <2>1 DEF MarkSeen, Behind
  <2>3. ~Misread(sel)
    BY <2>1, <2>2 DEF PlainReadRight, Misread
  <2>4. /\ v \in StatefulSet
        /\ sts[sel].image <= v.image /\ v.image <= want
        /\ Marked(v) => Exists(seen[sel])
        /\ Exists(seen[sel]) /\ Marked(seen[sel]) => v.image = want
    BY <2>1, <2>3, ActFacts
  <2>5. Store(sel, v)
    BY <1>6
  <2> HIDE DEF v
  <2> QED BY <1>1, <1>3, <2>1, <2>2, <2>4, <2>5, SeenWrite
<1>7. CASE Mark
  <2>1. upgrading /\ outcome' = outcome
    BY <1>7 DEF Mark, Go, Gated
  <2> QED BY <1>3, <1>5, <1>7, <2>1 DEF Mark, Go
<1>8. CASE MarkFails
  BY <1>4, <1>5, <1>8 DEF MarkFails, StoreFails, Go
<1>9. CASE Clear
  BY <1>4, <1>5, <1>9 DEF Clear, StoreFails, Go
<1> QED
  BY <1>4, <1>6, <1>7, <1>8, <1>9 DEF ApplyStatefulSet, ApplyStatefulSetFails, StoreFails

(* The statuses that a run stores claim success only for a node that has   *)
(* the image: the run's own node after its gates, or what was true before. *)
LEMMA SeenReport ==
    ASSUME TypeInv, SeenInv, Report
    PROVE  SeenInv'
<1> USE DEF TypeInv, SeenInv
<1>1. UNCHANGED <<sts, seen, spec>> /\ pc' = "idle" /\ outcome' = "none"
  BY DEF Report, EndRun, kube, world
<1>2. ImagesBounded' /\ Behind' /\ Loaded' /\ Gated' /\ PlainReadRight' /\ Given'
  BY <1>1 DEF ImagesBounded, Behind, Loaded, Gated, PlainReadRight, Given
<1>3. \A n \in Node : sts[n].image \in Int /\ 0 <= sts[n].image
  BY ImageAssumption DEF TypeOK, StatefulSet, Image, NoImage
<1>4. CASE status' = Statuses
  <2> SUFFICES ASSUME NEW n \in Node, Statuses[n].phase = "Created"
               PROVE  Statuses[n].attempted <= sts[n].image
    BY <1>1, <1>2, <1>4 DEF SuccessMeansRolled
  <2>1. \A m \in Node : statusOrCreated(m).phase = "Created" =>
                           statusOrCreated(m).attempted <= sts[m].image
    BY <1>3 DEF statusOrCreated, SuccessMeansRolled, NoImage
  <2>2. \/ Statuses[n] = NoStatus
        \/ Statuses[n] = statusOrCreated(n)
        \/ Statuses[n] = selectedStatus /\ n = sel
    <3>1. Statuses[n] = IF ~Returned(n) THEN NoStatus
                        ELSE IF n = sel THEN selectedStatus
                        ELSE statusOrCreated(n)
      BY DEF Statuses
    <3> QED BY <3>1
  <2>3. Statuses[n] # NoStatus
    <3>1. NoStatus.phase # "Created"
      BY DEF NoStatus
    <3> QED BY <3>1
  <2>4. CASE Statuses[n] = selectedStatus /\ n = sel
    <3>1. CASE outcome \in {"unloaded", "failed"}
      BY <2>4, <3>1 DEF selectedStatus
    <3>2. CASE outcome = "upgraded"
      <4>1. selectedStatus = [phase |-> "Created", attempted |-> want]
        BY <3>2 DEF selectedStatus
      <4>2. sts[sel].image = want
        BY <3>2 DEF Given
      <4> QED BY <1>3, <2>4, <4>1, <4>2
    <3>3. CASE outcome \notin {"unloaded", "failed", "upgraded"}
      BY <2>1, <2>4, <3>3 DEF selectedStatus
    <3> QED BY <3>1, <3>2, <3>3
  <2>5. CASE Statuses[n] = statusOrCreated(n)
    BY <2>1, <2>5
  <2> QED BY <2>2, <2>3, <2>4, <2>5
<1>5. CASE status' = status
  BY <1>1, <1>2, <1>5, SeenQuiet
<1> QED BY <1>4, <1>5 DEF Report

(* A copy is brought up to date, by an event or in the next process.       *)
LEMMA SeenFresh ==
    ASSUME TypeInv, SeenInv, Crash \/ \E n \in Node : Deliver(n)
    PROVE  SeenInv'
<1> USE DEF TypeInv, SeenInv
<1>1. /\ UNCHANGED <<sts, spec, status>>
      /\ \A m \in Node : seen'[m] = seen[m] \/ seen'[m] = sts[m]
      /\ \/ UNCHANGED <<pc, want, sel, upgrading, outcome>>
         \/ pc' = "idle" /\ outcome' = "none"
  BY DEF Crash, Deliver, EndRun, world, run, TypeOK
<1>2. \A m \in Node : sts[m].image \in Int /\ (Exists(seen[m]) => Exists(sts[m]))
  BY CopyFacts, SeenExists
<1>3. Behind'
  BY <1>1, <1>2 DEF Behind
<1>4. ImagesBounded' /\ Gated' /\ Given' /\ SuccessMeansRolled'
  BY <1>1 DEF ImagesBounded, Gated, Given, SuccessMeansRolled
<1>5. CASE pc' = "idle"
  BY <1>3, <1>4, <1>5 DEF Loaded, PlainReadRight
<1>6. CASE pc \in {"loadMark", "applySts"} /\ UNCHANGED <<pc, want, sel, upgrading, outcome>>
  <2>1. sel \in Node /\ want \in Image
    BY <1>6 DEF RunOK, Working
  <2>2. /\ seen[sel].image <= sts[sel].image /\ sts[sel].image <= want
        /\ want \in Int /\ sts[sel].image \in Int /\ seen[sel].image \in Int
    BY <1>6, <2>1, CopyFacts, ImageInt DEF Behind, ImagesBounded
  <2>3. Loaded'
    BY <1>1, <1>2, <1>6, <2>1, <2>2 DEF Loaded
  <2>4. Misread(sel)' => Misread(sel)
    <3>1. Misread(sel)' => Exists(seen'[sel]) /\ ~Marked(seen'[sel])
                             /\ seen'[sel].image < sts[sel].image
      BY <1>1, <1>6 DEF Misread
    <3> QED BY <1>1, <2>1, <2>2, <3>1 DEF Misread
  <2>5. PlainReadRight'
    BY <1>6, <2>4 DEF PlainReadRight
  <2> QED BY <1>3, <1>4, <2>3, <2>5
<1>7. CASE pc \notin {"loadMark", "applySts"} /\ pc' = pc
  BY <1>3, <1>4, <1>7 DEF Loaded, PlainReadRight
<1> QED BY <1>1, <1>5, <1>6, <1>7

(* What happens to pods, to the spec and to the observer's report.         *)
LEMMA SeenWorld ==
    ASSUME TypeInv, SeenInv,
           \/ RaiseImage \/ Bootstrap
           \/ \E n \in Node : \/ ReplacePod(n) \/ StartPod(n) \/ LoadDatabases(n)
                              \/ FailPod(n) \/ Observe(n)
           \/ UNCHANGED vars
    PROVE  SeenInv'
<1> USE DEF TypeInv, SeenInv
<1>1. /\ UNCHANGED <<sts, seen, status, pc, want, sel, upgrading, outcome>>
      /\ spec' = spec \/ RaiseImage
  BY DEF RaiseImage, Bootstrap, ReplacePod, StartPod, LoadDatabases, FailPod, Observe,
         vars, kube, run
<1>2. Loaded' /\ Gated' /\ PlainReadRight' /\ Given'
  BY <1>1 DEF Loaded, Gated, PlainReadRight, Misread, Given
<1>3. ImagesBounded'
  <2>1. CASE spec' = spec
    BY <1>1, <2>1 DEF ImagesBounded
  <2>2. CASE RaiseImage
    <3>1. spec' > spec /\ spec' \in Image
      BY <2>2 DEF RaiseImage
    <3>2. /\ spec \in Int /\ spec' \in Int /\ (pc # "idle" => want \in Int)
          /\ \A n \in Node : sts[n].image \in Int
      BY <3>1, ImageInt, CopyFacts DEF TypeOK, RunOK
    <3> QED BY <1>1, <3>1, <3>2 DEF ImagesBounded
  <2> QED BY <1>1, <2>1, <2>2
<1> QED BY <1>1, <1>2, <1>3, SeenQuiet

(* At first nothing is behind anything and no node has a status.           *)
LEMMA SeenInit == Init => SeenInv
<1> SUFFICES ASSUME Init PROVE SeenInv
  OBVIOUS
<1>1. ImagesBounded /\ Behind /\ Loaded
  BY LagInit DEF LagInv
<1>2. pc = "idle" /\ outcome = "none" /\ \A n \in Node : status[n].phase # "Created"
  BY DEF Init, NoStatus
<1> QED
  BY <1>1, <1>2 DEF SeenInv, Gated, PlainReadRight, Given, SuccessMeansRolled

(* Every step keeps the invariant and lowers no image.                     *)
LEMMA SeenStep ==
    ASSUME TypeInv, SeenInv, [MarkSeenNext]_vars
    PROVE  SeenInv' /\ \A n \in Node : sts[n].image <= sts'[n].image
<1>1. \A n \in Node : sts[n].image <= sts[n].image
  BY CopyFacts DEF TypeInv
<1>2. CASE MarkSeen /\ (\/ Mark \/ MarkFails \/ ApplyStatefulSet
                        \/ ApplyStatefulSetFails \/ Clear)
  BY <1>2, SeenWrites
<1>3. CASE \/ BuildGates \/ BuildGatesFails
           \/ FindInFlight \/ FindMissing \/ FindMismatch
           \/ Load \/ LoadFails
           \/ preNode \/ preNodeFails \/ postNode \/ postNodeFails
           \/ ApplyService \/ ApplyServiceFails
  <2>1. sts' = sts
    BY <1>3 DEF BuildGates, BuildGatesFails, FindInFlight, FindMissing, FindMismatch,
       Load, LoadFails, preNode, preNodeFails, postNode, postNodeFails, Gate, GateFails,
       ApplyService, ApplyServiceFails, kube
  <2> QED BY <1>1, <1>3, <2>1, SeenRun
<1>4. CASE LoadMark \/ Report \/ Crash \/ \E n \in Node : Deliver(n)
  <2>1. sts' = sts
    BY <1>4 DEF LoadMark, Report, Crash, Deliver, kube
  <2> QED BY <1>1, <1>4, <2>1, SeenLoadMark, SeenReport, SeenFresh
<1>5. CASE \/ RaiseImage \/ Bootstrap
           \/ \E n \in Node : \/ ReplacePod(n) \/ StartPod(n) \/ LoadDatabases(n)
                              \/ FailPod(n) \/ Observe(n)
           \/ UNCHANGED vars
  <2>1. sts' = sts
    BY <1>5 DEF RaiseImage, Bootstrap, ReplacePod, StartPod, LoadDatabases, FailPod,
                Observe, vars, kube
  <2> QED BY <1>1, <1>5, <2>1, SeenWorld
<1> QED
  BY <1>2, <1>3, <1>4, <1>5 DEF MarkSeenNext, Next, Operator, World

(* However far the cache lags, whatever fails and wherever the operator    *)
(* crashes: when Act sees the mark of each upgrade it applies, a node that *)
(* is reported as upgraded to an image has that image.                     *)
THEOREM SuccessIsRolled == MarkSeenSpec => []SuccessMeansRolled
<1>1. Init => TypeInv /\ SeenInv
  BY TypeInit, SeenInit
<1>2. TypeInv /\ SeenInv /\ [MarkSeenNext]_vars => (TypeInv /\ SeenInv)'
  BY TypeStep, SeenStep DEF MarkSeenNext
<1>3. SeenInv => SuccessMeansRolled
  BY DEF SeenInv
<1> QED BY <1>1, <1>2, <1>3, PTL DEF MarkSeenSpec

(* Under the same condition no write ever puts an older image on a node.   *)
THEOREM NeverRollsBackSeen == MarkSeenSpec => NoRollback
<1>1. Init => TypeInv /\ SeenInv
  BY TypeInit, SeenInit
<1>2. TypeInv /\ SeenInv /\ [MarkSeenNext]_vars => (TypeInv /\ SeenInv)'
  BY TypeStep, SeenStep DEF MarkSeenNext
<1>3. TypeInv /\ SeenInv /\ [MarkSeenNext]_vars =>
         [\A n \in Node : sts[n].image <= sts'[n].image]_vars
  BY SeenStep
<1> QED BY <1>1, <1>2, <1>3, PTL DEF MarkSeenSpec, NoRollback

=============================================================================
