------------------------ MODULE RollingUpgradeProofs ------------------------
(***************************************************************************)
(* Theorems about RollingUpgrade, for any number of nodes and images, any  *)
(* placement of databases and any number of troubles of every kind.        *)
(***************************************************************************)
EXTENDS RollingUpgrade, TLAPS

-----------------------------------------------------------------------------
(* Type correctness, however far the cache lags. *)

(* What the operator stores is a StatefulSet.                              *)
LEMMA StoredType ==
    ASSUME TypeOK, NEW n \in Node, want \in Image
    PROVE  /\ Act(n) \in StatefulSet
           /\ Annotated(n, want) \in StatefulSet
           /\ Annotated(n, NoImage) \in StatefulSet
BY DEF TypeOK, StatefulSet, Act, Annotated, Exists, Marked, NoImage

(* Storing a StatefulSet keeps the live and the cached ones well-typed.    *)
LEMMA StoreType ==
    ASSUME TypeOK, NEW n \in Node, NEW v \in StatefulSet,
           Store(n, v) \/ UNCHANGED <<sts, seen>>
    PROVE  sts' \in [Node -> StatefulSet] /\ seen' \in [Node -> StatefulSet]
BY DEF TypeOK, Store

(* Trouble stays within its bound.                                         *)
LEMMA HitType ==
    ASSUME TypeOK, NEW kind, Hit(kind)
    PROVE  trouble' \in 0 .. MaxTrouble
BY TroubleAssumption DEF TypeOK, Hit

(* The steps that work on the selected node.                               *)
Working == {"load", "loadMark", "preAlive", "preConn", "preDB", "mark",
            "applySts", "applySvc", "postAlive", "postConn", "postDB", "clear"}

(* A run has an image to go for, and a node once it works on one.          *)
RunOK ==
    /\ pc # "idle" => want \in Image
    /\ pc \in Working => sel \in Node

TypeInv == TypeOK /\ RunOK

(* The statuses that Run returns are node statuses.                        *)
LEMMA StatusesType ==
    ASSUME TypeOK
    PROVE  Statuses \in [Node -> NodeStatus]
<1>1. \A n \in Node : statusOrCreated(n) \in NodeStatus
  BY DEF TypeOK, statusOrCreated, NodeStatus, NoStatus, NoImage
<1>2. ASSUME NEW n \in Node, n = sel
      PROVE  selectedStatus \in NodeStatus
  <2>1. CASE outcome \in {"unloaded", "failed", "upgraded"}
    BY <2>1 DEF TypeOK, selectedStatus, NodeStatus, NoImage
  <2>2. CASE outcome \notin {"unloaded", "failed", "upgraded"}
    BY <1>1, <1>2, <2>2 DEF selectedStatus
  <2> QED BY <2>1, <2>2
<1>3. NoStatus \in NodeStatus
  BY DEF NoStatus, NodeStatus, NoImage
<1> QED BY <1>1, <1>2, <1>3 DEF Statuses

(* Every step keeps the types.                                             *)
LEMMA TypeStep ==
    ASSUME TypeInv, [Next]_vars
    PROVE  TypeInv'
<1> USE DEF TypeInv
<1>w. TypeOK /\ RunOK
  OBVIOUS
<1>1. CASE BuildGates
  BY <1>1, <1>w DEF TypeOK, RunOK, Working, Steps, Outcomes, BuildGates, Go, kube, world
<1>2. CASE BuildGatesFails
  BY <1>2, <1>w, HitType DEF TypeOK, RunOK, Working, Steps, Outcomes, BuildGatesFails, Go, kube, world
<1>3. CASE FindInFlight
  BY <1>3, <1>w DEF TypeOK, RunOK, Working, Steps, Outcomes, FindInFlight, Select, kube, world
<1>4. CASE FindMissing
  BY <1>4, <1>w DEF TypeOK, RunOK, Working, Steps, Outcomes, FindMissing, Select, kube, world
<1>5. CASE FindMismatch
  BY <1>5, <1>w DEF TypeOK, RunOK, Working, Steps, Outcomes, FindMismatch, Select, kube, world
<1>6. CASE Load \/ LoadMark
  <2>1. upgrading' \in BOOLEAN
    BY <1>6, <1>w DEF TypeOK, Load, LoadMark, isUpgrading, Marked
  <2> QED
    BY <1>6, <1>w, <2>1 DEF TypeOK, RunOK, Working, Steps, Outcomes, Load, LoadMark,
       kube, world
<1>7. CASE LoadFails
  BY <1>7, <1>w, HitType DEF TypeOK, RunOK, Working, Steps, Outcomes, LoadFails, Go, kube, world
<1>8. CASE preNode \/ preNodeFails
  BY <1>8, <1>w, HitType DEF TypeOK, RunOK, Working, Steps, Outcomes, preNode, preNodeFails,
     Gate, GateFails, Go, kube, world
<1>9. CASE Mark
  <2>1. sel \in Node /\ want \in Image
    BY <1>9, <1>w DEF Mark, Go, RunOK, Working
  <2>2. sts' \in [Node -> StatefulSet] /\ seen' \in [Node -> StatefulSet]
    BY <1>9, <1>w, <2>1, StoredType, StoreType DEF Mark
  <2> QED
    BY <1>9, <1>w, <2>1, <2>2 DEF TypeOK, RunOK, Working, Steps, Outcomes, Mark, Go, world
<1>10. CASE MarkFails
  <2>1. sel \in Node /\ want \in Image
    BY <1>10, <1>w DEF MarkFails, Go, RunOK, Working
  <2>2. sts' \in [Node -> StatefulSet] /\ seen' \in [Node -> StatefulSet]
    BY <1>10, <1>w, <2>1, StoredType, StoreType DEF MarkFails, StoreFails
  <2>3. trouble' \in 0 .. MaxTrouble
    BY <1>10, <1>w, HitType DEF MarkFails, StoreFails
  <2> QED
    BY <1>10, <1>w, <2>1, <2>2, <2>3 DEF TypeOK, RunOK, Working, Steps, Outcomes, MarkFails, Go, world
<1>11. CASE ApplyStatefulSet
  <2>1. sel \in Node /\ want \in Image
    BY <1>11, <1>w DEF ApplyStatefulSet, Go, RunOK, Working
  <2>2. sts' \in [Node -> StatefulSet] /\ seen' \in [Node -> StatefulSet]
    BY <1>11, <1>w, <2>1, StoredType, StoreType DEF ApplyStatefulSet
  <2> QED
    BY <1>11, <1>w, <2>1, <2>2 DEF TypeOK, RunOK, Working, Steps, Outcomes, ApplyStatefulSet, Go, world
<1>12. CASE ApplyStatefulSetFails
  <2>1. sel \in Node /\ want \in Image
    BY <1>12, <1>w DEF ApplyStatefulSetFails, Go, RunOK, Working
  <2>2. sts' \in [Node -> StatefulSet] /\ seen' \in [Node -> StatefulSet]
    BY <1>12, <1>w, <2>1, StoredType, StoreType DEF ApplyStatefulSetFails, StoreFails
  <2>3. trouble' \in 0 .. MaxTrouble
    BY <1>12, <1>w, HitType DEF ApplyStatefulSetFails, StoreFails
  <2> QED
    BY <1>12, <1>w, <2>1, <2>2, <2>3 DEF TypeOK, RunOK, Working, Steps, Outcomes,
       ApplyStatefulSetFails, AfterApplyFailed, Go, world
<1>13. CASE ApplyService
  BY <1>13, <1>w DEF TypeOK, RunOK, Working, Steps, Outcomes, ApplyService, Go, world
<1>14. CASE ApplyServiceFails
  <2>1. sel \in Node
    BY <1>14, <1>w DEF ApplyServiceFails, Go, RunOK, Working
  <2>2. svc' \in [Node -> BOOLEAN]
    BY <1>14, <1>w, <2>1 DEF TypeOK, ApplyServiceFails
  <2>3. trouble' \in 0 .. MaxTrouble
    BY <1>14, <1>w, HitType DEF ApplyServiceFails
  <2> QED
    BY <1>14, <1>w, <2>1, <2>2, <2>3 DEF TypeOK, RunOK, Working, Steps, Outcomes,
       ApplyServiceFails, AfterApplyFailed, Go, world
<1>15. CASE postNode \/ postNodeFails
  BY <1>15, <1>w, HitType DEF TypeOK, RunOK, Working, Steps, Outcomes, postNode, postNodeFails,
     Gate, GateFails, Go, kube, world
<1>16. CASE Clear
  <2>1. sel \in Node /\ want \in Image
    BY <1>16, <1>w DEF Clear, Go, RunOK, Working
  <2>2. sts' \in [Node -> StatefulSet] /\ seen' \in [Node -> StatefulSet]
    BY <1>16, <1>w, <2>1, StoredType, StoreType DEF Clear, StoreFails
  <2>3. trouble' \in 0 .. MaxTrouble
    BY <1>16, <1>w, HitType DEF Clear, StoreFails, TypeOK
  <2> QED
    BY <1>16, <1>w, <2>1, <2>2, <2>3 DEF TypeOK, RunOK, Working, Steps, Outcomes, Clear, Go, world
<1>17. CASE Report
  <2>1. status' \in [Node -> NodeStatus]
    BY <1>17, <1>w, StatusesType DEF Report, TypeOK
  <2>2. trouble' \in 0 .. MaxTrouble
    BY <1>17, <1>w, HitType DEF Report, TypeOK
  <2> QED
    BY <1>17, <1>w, <2>1, <2>2 DEF TypeOK, RunOK, Working, Steps, Outcomes, Report, EndRun,
       kube, world, NoImage
<1>18. CASE Crash
  BY <1>18, <1>w, HitType DEF TypeOK, RunOK, Working, Steps, Outcomes, Crash, EndRun,
     world, NoImage
<1>19. CASE World
  <2>1. CASE RaiseImage
    BY <2>1, <1>w DEF TypeOK, RunOK, RaiseImage, kube, run
  <2>2. CASE Bootstrap
    BY <2>2, <1>w DEF TypeOK, RunOK, Bootstrap, kube, run
  <2>3. ASSUME NEW n \in Node, Deliver(n)
        PROVE  TypeInv'
    BY <2>3, <1>w DEF TypeOK, RunOK, Deliver, world, run
  <2>4. ASSUME NEW n \in Node, ReplacePod(n)
        PROVE  TypeInv'
    <3>1. [image |-> sts[n].image, state |-> "down"] \in Pod
      BY <1>w DEF TypeOK, StatefulSet, Pod
    <3> QED
      BY <2>4, <1>w, <3>1 DEF TypeOK, RunOK, ReplacePod, kube, run
  <2>5. ASSUME NEW n \in Node, StartPod(n) \/ LoadDatabases(n)
        PROVE  TypeInv'
    BY <2>5, <1>w DEF TypeOK, RunOK, Pod, StartPod, LoadDatabases, kube, run
  <2>6. ASSUME NEW n \in Node, FailPod(n)
        PROVE  TypeInv'
    BY <2>6, <1>w, HitType DEF TypeOK, RunOK, Pod, FailPod, kube, run
  <2>7. ASSUME NEW n \in Node, Observe(n)
        PROVE  TypeInv'
    BY <2>7, <1>w DEF TypeOK, RunOK, Observe, Serving, kube, run
  <2> QED BY <1>19, <2>1, <2>2, <2>3, <2>4, <2>5, <2>6, <2>7 DEF World
<1>20. CASE UNCHANGED vars
  BY <1>20, <1>w DEF TypeOK, RunOK, vars
<1> QED
  BY <1>1, <1>2, <1>3, <1>4, <1>5, <1>6, <1>7, <1>8, <1>9, <1>10, <1>11,
     <1>12, <1>13, <1>14, <1>15, <1>16, <1>17, <1>18, <1>19, <1>20
     DEF Next, Operator

(* The initial state has the types.                                        *)
LEMMA TypeInit == Init => TypeInv
<1> SUFFICES ASSUME Init PROVE TypeInv
  OBVIOUS
<1>1. Absent \in StatefulSet /\ NoStatus \in NodeStatus
  BY DEF Absent, StatefulSet, NoStatus, NodeStatus, NoImage
<1>2. [image |-> NoImage, state |-> "down"] \in Pod
  BY DEF Pod, NoImage
<1>3. 1 \in Image /\ trouble \in 0 .. MaxTrouble
  BY ImageAssumption, TroubleAssumption DEF Init, Image
<1> QED
  BY <1>1, <1>2, <1>3
     DEF Init, TypeInv, TypeOK, RunOK, NoImage, Steps, Outcomes, Working

(* All state of the operator, the cluster and the cached copies has the    *)
(* expected types in every behaviour, with a lagging cache as well.        *)
THEOREM TypeCorrect == Spec => []TypeOK
<1>1. TypeInv /\ [Next]_vars => TypeInv'
  BY TypeStep
<1> QED BY TypeInit, <1>1, PTL DEF Spec, TypeInv

-----------------------------------------------------------------------------
(* The inductive invariant of runs whose reads are fresh. *)

(* Only an existing StatefulSet is marked.                                 *)
MarkedExist == \A n \in Node : Marked(sts[n]) => Exists(sts[n])

(* While a run works on a node no other node is marked, and none is when   *)
(* the search has passed the in-flight nodes.                              *)
OthersUnmarked ==
    /\ pc \in Working => \A n \in Node : Marked(sts[n]) => n = sel
    /\ pc \in {"missing", "mismatch"} => \A n \in Node : ~Marked(sts[n])

(* No node is ahead of the spec, nor of the image the run goes for.        *)
ImagesBounded ==
    /\ \A n \in Node : sts[n].image <= spec
    /\ pc # "idle" => want <= spec /\ \A n \in Node : sts[n].image <= want

(* A node that is about to be marked has every earlier node up to date.    *)
InOrder ==
    /\ pc = "mismatch" => \A n \in Node : Exists(sts[n])
    /\ pc \in {"preAlive", "preConn", "preDB", "mark"} => Exists(sts[sel])
    /\ pc = "loadMark" => Exists(sts[sel])
    /\ \/ pc \in {"preAlive", "preConn", "preDB", "mark"}
       \/ pc \in {"load", "loadMark"} /\ Exists(sts[sel]) /\ ~Marked(sts[sel])
       => \A m \in Node : m < sel => sts[m].image = want

FreshInv ==
    /\ seen = sts
    /\ MarkedExist
    /\ AtMostOneInFlight
    /\ OthersUnmarked
    /\ ImagesBounded
    /\ InOrder

(* A fresh cache stays fresh across a write.                               *)
LEMMA FreshStore ==
    ASSUME MaxLag = 0, TypeOK, seen = sts, NEW n \in Node,
           NEW v \in StatefulSet, Store(n, v)
    PROVE  sts' = [sts EXCEPT ![n] = v] /\ seen' = sts'
<1>1. CASE v = sts[n]
  <2>1. sts' = sts
    BY <1>1 DEF Store, TypeOK
  <2> QED BY <1>1, <2>1 DEF Store
<1>2. CASE v # sts[n]
  BY <1>2 DEF Store
<1> QED BY <1>1, <1>2

(* Images are integers.                                                    *)
LEMMA ImageInt == \A i \in Image \cup {NoImage} : i \in Int
BY ImageAssumption DEF Image, NoImage

(* What a step that leaves the StatefulSets alone must show: the invariant *)
(* of the run it continues.                                                *)
LEMMA QuietStep ==
    ASSUME FreshInv, UNCHANGED <<sts, seen>>,
           OthersUnmarked', ImagesBounded', InOrder'
    PROVE  FreshInv'
BY DEF FreshInv, MarkedExist, AtMostOneInFlight

(* The same for a step that writes the selected node, whose image it       *)
(* raises, if at all, to the image of the run.                             *)
LEMMA WriteStep ==
    ASSUME TypeInv, FreshInv, pc \in Working,
           NEW v \in StatefulSet,
           Marked(v) => Exists(v),
           sts[sel].image <= v.image, v.image <= want,
           sts' = [sts EXCEPT ![sel] = v], seen' = sts',
           spec' = spec, want' = want, sel' = sel,
           pc' \notin {"idle", "missing", "mismatch"},
           InOrder'
    PROVE  FreshInv'
<1> USE DEF FreshInv, TypeInv
<1>1. sel \in Node /\ want \in Image /\ spec \in Image
  BY DEF RunOK, TypeOK, Working
<1>2. /\ \A n \in Node : n # sel => sts'[n] = sts[n]
      /\ sts'[sel] = v
  BY <1>1 DEF TypeOK
<1>3. MarkedExist'
  BY <1>1, <1>2 DEF MarkedExist
<1>4. \A n \in Node : Marked(sts'[n]) => n = sel
  BY <1>1, <1>2 DEF OthersUnmarked
<1>5. AtMostOneInFlight' /\ OthersUnmarked'
  BY <1>4 DEF AtMostOneInFlight, OthersUnmarked
<1>6. ImagesBounded'
  <2>1. \A n \in Node : sts'[n].image <= want
    BY <1>1, <1>2 DEF ImagesBounded, Working
  <2>2. want <= spec
    BY DEF ImagesBounded, Working
  <2>3. \A n \in Node : sts'[n].image \in Int
    BY <1>1, <1>2, ImageInt DEF TypeOK, StatefulSet
  <2>4. want \in Int /\ spec \in Int
    BY <1>1, ImageInt
  <2>5. \A n \in Node : sts'[n].image <= spec
    BY <2>1, <2>2, <2>3, <2>4
  <2> QED
    BY <2>1, <2>2, <2>5 DEF ImagesBounded
<1> QED BY <1>3, <1>5, <1>6

(* Selecting a node and loading it keeps the invariant.                    *)
LEMMA SearchStep ==
    ASSUME TypeInv, FreshInv,
           \/ BuildGates \/ BuildGatesFails
           \/ FindInFlight \/ FindMissing \/ FindMismatch
           \/ Load \/ LoadMark \/ LoadFails
    PROVE  FreshInv'
<1> USE DEF FreshInv, TypeInv
<1>q. UNCHANGED <<sts, seen, spec>>
  BY DEF BuildGates, BuildGatesFails, FindInFlight, FindMissing, FindMismatch,
         Load, LoadMark, LoadFails, kube, world
<1>i. spec \in Int /\ \A n \in Node : sts[n].image \in Int
  BY ImageInt DEF TypeOK, StatefulSet
<1>1. CASE BuildGates \/ BuildGatesFails
  BY <1>1, <1>q, <1>i, QuietStep
     DEF BuildGates, BuildGatesFails, Go, Working,
         OthersUnmarked, ImagesBounded, InOrder
<1>2. CASE FindInFlight
  <2>1. ASSUME NEW n \in Node, First(n, InFlight), Select(n)
        PROVE  OthersUnmarked' /\ InOrder'
    <3>1. n \in InFlight /\ Marked(sts[n])
      BY <2>1 DEF First, InFlight
    <3> QED
      BY <1>q, <2>1, <3>1 DEF AtMostOneInFlight, Select, Working, OthersUnmarked, InOrder
  <2>2. ASSUME InFlight = {}, pc' = "missing"
        PROVE  OthersUnmarked' /\ InOrder'
    BY <1>q, <2>2 DEF InFlight, MarkedExist, Working, OthersUnmarked, InOrder
  <2>3. OthersUnmarked' /\ InOrder'
    BY <1>2, <2>1, <2>2 DEF FindInFlight
  <2> QED
    BY <1>2, <1>q, <2>3, QuietStep DEF FindInFlight, Select, Working, ImagesBounded
<1>3. CASE FindMissing
  <2>1. ASSUME NEW n \in Node, First(n, Missing), Select(n)
        PROVE  OthersUnmarked' /\ InOrder'
    <3>1. ~Exists(sts[n])
      BY <2>1 DEF First, Missing
    <3> QED
      BY <1>3, <1>q, <2>1, <3>1 DEF FindMissing, Select, Working, OthersUnmarked, InOrder
  <2>2. ASSUME Missing = {}, pc' = "mismatch"
        PROVE  OthersUnmarked' /\ InOrder'
    BY <1>3, <1>q, <2>2 DEF FindMissing, Missing, Working, OthersUnmarked, InOrder
  <2>3. OthersUnmarked' /\ InOrder'
    BY <1>3, <2>1, <2>2 DEF FindMissing
  <2> QED
    BY <1>3, <1>q, <2>3, QuietStep DEF FindMissing, Select, Working, ImagesBounded
<1>4. CASE FindMismatch
  <2>1. ASSUME NEW n \in Node, First(n, Mismatched), Select(n)
        PROVE  OthersUnmarked' /\ InOrder'
    <3>1. \A m \in Node : m < n => sts[m].image = want
      BY <1>4, <2>1 DEF FindMismatch, InOrder, First, Mismatched, Node
    <3> QED
      BY <1>4, <1>q, <2>1, <3>1 DEF FindMismatch, Select, Working, OthersUnmarked, InOrder
  <2>2. ASSUME pc' = "report"
        PROVE  OthersUnmarked' /\ InOrder'
    BY <2>2 DEF Working, OthersUnmarked, InOrder
  <2>3. OthersUnmarked' /\ InOrder'
    BY <1>4, <2>1, <2>2 DEF FindMismatch
  <2> QED
    BY <1>4, <1>q, <2>3, QuietStep DEF FindMismatch, Select, Working, ImagesBounded
<1>5. CASE Load
  <2>1. OthersUnmarked' /\ ImagesBounded'
    BY <1>5, <1>q DEF Load, Working, OthersUnmarked, ImagesBounded
  <2>2. InOrder'
    BY <1>5, <1>q DEF Load, Working, InOrder
  <2> QED
    BY <1>q, <2>1, <2>2, QuietStep
<1>6. CASE LoadMark
  <2>1. OthersUnmarked' /\ ImagesBounded'
    BY <1>6, <1>q DEF LoadMark, Working, OthersUnmarked, ImagesBounded
  <2>2. InOrder'
    BY <1>6, <1>q DEF LoadMark, Working, InOrder
  <2> QED
    BY <1>q, <2>1, <2>2, QuietStep
<1>7. CASE LoadFails
  BY <1>7, <1>q, QuietStep
     DEF LoadFails, Go, Working, OthersUnmarked, ImagesBounded, InOrder
<1> QED BY <1>1, <1>2, <1>3, <1>4, <1>5, <1>6, <1>7

(* Passing or failing a gate keeps the invariant.                          *)
LEMMA GateStep ==
    ASSUME TypeInv, FreshInv,
           preNode \/ preNodeFails \/ postNode \/ postNodeFails
    PROVE  FreshInv'
<1> USE DEF FreshInv, TypeInv
<1>q. UNCHANGED <<sts, seen, spec, want, sel, upgrading>>
  BY DEF preNode, preNodeFails, postNode, postNodeFails, Gate, GateFails, kube, world
<1>1. CASE preNode
  BY <1>1, <1>q, QuietStep
     DEF preNode, Gate, Go, Working, OthersUnmarked, ImagesBounded, InOrder
<1>2. CASE preNodeFails
  BY <1>2, <1>q, QuietStep
     DEF preNodeFails, GateFails, Go, Working, OthersUnmarked, ImagesBounded, InOrder
<1>3. CASE postNode
  <2>1. sel \in Node
    BY <1>3 DEF postNode, Gate, Go, RunOK, Working
  <2> QED
    BY <1>3, <1>q, <2>1, QuietStep
       DEF postNode, Gate, Go, Working, OthersUnmarked, ImagesBounded, InOrder
<1>4. CASE postNodeFails
  BY <1>4, <1>q, QuietStep
     DEF postNodeFails, GateFails, Go, Working, OthersUnmarked, ImagesBounded, InOrder
<1> QED BY <1>1, <1>2, <1>3, <1>4

(* What a fresh run writes: Mark and Clear change the annotation alone,    *)
(* and the actor gives a marked or missing node the image of the run.      *)
LEMMA FreshWrites ==
    ASSUME TypeInv, FreshInv, pc \in Working
    PROVE  /\ Act(sel).mark = sts[sel].mark
           /\ sts[sel].image <= Act(sel).image /\ Act(sel).image <= want
           /\ Marked(sts[sel]) => Act(sel).image = want
           /\ Exists(sts[sel]) \/ Act(sel).image = want
           /\ \A i \in {want, NoImage} :
                 /\ Annotated(sel, i).image = sts[sel].image
                 /\ Exists(sts[sel]) => Annotated(sel, i).mark = i
                 /\ ~Exists(sts[sel]) => Annotated(sel, i) = sts[sel]
<1> USE DEF FreshInv, TypeInv
<1>1. sel \in Node /\ want \in Image /\ sts[sel] \in StatefulSet
  BY DEF RunOK, TypeOK, Working
<1>2. sts[sel].image <= want /\ seen[sel] = sts[sel]
  BY <1>1 DEF ImagesBounded, Working
<1>3. sts[sel].image \in Int /\ want \in Int
  BY <1>1, ImageInt DEF StatefulSet
<1>4. Marked(sts[sel]) => Exists(sts[sel])
  BY <1>1 DEF MarkedExist
<1>5. /\ Act(sel).mark = sts[sel].mark
      /\ sts[sel].image <= Act(sel).image /\ Act(sel).image <= want
      /\ Marked(sts[sel]) => Act(sel).image = want
      /\ Exists(sts[sel]) \/ Act(sel).image = want
  BY <1>1, <1>2, <1>3, <1>4 DEF Act, StatefulSet, Marked, Exists
<1>6. \A i \in {want, NoImage} :
         /\ Annotated(sel, i).image = sts[sel].image
         /\ Exists(sts[sel]) => Annotated(sel, i).mark = i
         /\ ~Exists(sts[sel]) => Annotated(sel, i) = sts[sel]
  BY <1>1, <1>2 DEF Annotated, StatefulSet
<1> QED BY <1>5, <1>6

(* Storing the annotation or the applied StatefulSet keeps the invariant.  *)
LEMMA StoreStep ==
    ASSUME MaxLag = 0, TypeInv, FreshInv,
           \/ Mark \/ MarkFails
           \/ ApplyStatefulSet \/ ApplyStatefulSetFails
           \/ Clear
    PROVE  FreshInv'
<1> USE DEF FreshInv, TypeInv
<1>1. /\ pc \in Working /\ sel \in Node /\ want \in Image
      /\ spec' = spec /\ want' = want /\ sel' = sel
      /\ upgrading' = upgrading
      /\ pc' \in {"applySts", "applySvc", "clear", "report"}
  BY DEF Mark, MarkFails, ApplyStatefulSet, ApplyStatefulSetFails, Clear, Go,
         AfterApplyFailed, Working, RunOK, world
<1>2. sts[sel] \in StatefulSet /\ sts[sel].image \in Int
  BY <1>1, ImageInt DEF TypeOK, StatefulSet
<1>3. CASE sts' = sts /\ seen' = seen
  <2>1. OthersUnmarked' /\ ImagesBounded' /\ InOrder'
    BY <1>1, <1>3 DEF Working, OthersUnmarked, ImagesBounded, InOrder
  <2> QED BY <1>3, <2>1, QuietStep
<1>4. ASSUME Store(sel, Annotated(sel, want)), Mark \/ MarkFails
      PROVE  FreshInv'
  <2> DEFINE v == Annotated(sel, want)
  <2>1. v \in StatefulSet
    BY <1>1, StoredType
  <2>2. sts' = [sts EXCEPT ![sel] = v] /\ seen' = sts'
    BY <1>1, <1>4, <2>1, FreshStore
  <2>3. Exists(sts[sel]) /\ v.image = sts[sel].image /\ v.mark = want
    BY <1>1, <1>4, FreshWrites DEF Mark, MarkFails, Go, InOrder
  <2>4. sts[sel].image <= v.image /\ v.image <= want /\ (Marked(v) => Exists(v))
    BY <1>1, <1>2, <2>3 DEF ImagesBounded, Working, Exists
  <2>5. InOrder'
    BY <1>4 DEF Mark, MarkFails, Go, InOrder
  <2> HIDE DEF v
  <2> QED BY <1>1, <2>1, <2>2, <2>4, <2>5, WriteStep
<1>5. ASSUME Store(sel, Act(sel)), ApplyStatefulSet \/ ApplyStatefulSetFails
      PROVE  FreshInv'
  <2> DEFINE v == Act(sel)
  <2>1. v \in StatefulSet
    BY <1>1, StoredType
  <2>2. sts' = [sts EXCEPT ![sel] = v] /\ seen' = sts'
    BY <1>1, <1>5, <2>1, FreshStore
  <2>3. /\ v.mark = sts[sel].mark
        /\ sts[sel].image <= v.image /\ v.image <= want
        /\ Marked(sts[sel]) => v.image = want
    BY <1>1, FreshWrites
  <2>4. Marked(v) => Exists(v)
    BY <1>1, <2>3 DEF Marked, Exists, NoImage, Image
  <2>5. InOrder'
    BY <1>5 DEF ApplyStatefulSet, ApplyStatefulSetFails, AfterApplyFailed, Go, InOrder
  <2> HIDE DEF v
  <2> QED BY <1>1, <2>1, <2>2, <2>3, <2>4, <2>5, WriteStep
<1>6. ASSUME Store(sel, Annotated(sel, NoImage)), Clear
      PROVE  FreshInv'
  <2> DEFINE v == Annotated(sel, NoImage)
  <2>1. v \in StatefulSet
    BY <1>1, StoredType
  <2>2. sts' = [sts EXCEPT ![sel] = v] /\ seen' = sts'
    BY <1>1, <1>6, <2>1, FreshStore
  <2>3. v.image = sts[sel].image /\ ~Marked(v)
    BY <1>1, FreshWrites DEF MarkedExist, Marked
  <2>4. sts[sel].image <= v.image /\ v.image <= want
    BY <1>1, <1>2, <2>3 DEF ImagesBounded, Working
  <2>5. InOrder'
    BY <1>6 DEF Clear, Go, InOrder
  <2> HIDE DEF v
  <2> QED BY <1>1, <2>1, <2>2, <2>3, <2>4, <2>5, WriteStep
<1> QED
  BY <1>3, <1>4, <1>5, <1>6
     DEF Mark, MarkFails, ApplyStatefulSet, ApplyStatefulSetFails, Clear, StoreFails

(* Everything else leaves StatefulSets and annotations alone.              *)
LEMMA OtherStep ==
    ASSUME TypeInv, FreshInv,
           \/ ApplyService \/ ApplyServiceFails
           \/ Report \/ Crash \/ World
           \/ UNCHANGED vars
    PROVE  FreshInv'
<1> USE DEF FreshInv, TypeInv
<1>1. CASE ApplyService \/ ApplyServiceFails
  BY <1>1, QuietStep
     DEF ApplyService, ApplyServiceFails, AfterApplyFailed, Go, Working, world,
         OthersUnmarked, ImagesBounded, InOrder
<1>2. CASE Report \/ Crash
  BY <1>2, QuietStep
     DEF Report, Crash, EndRun, Working, kube, world,
         OthersUnmarked, ImagesBounded, InOrder
<1>3. CASE RaiseImage
  <2>1. /\ UNCHANGED <<sts, seen, pc, want, sel, upgrading, outcome>>
        /\ spec' > spec /\ spec' \in Image
    BY <1>3 DEF RaiseImage, kube, run
  <2>2. /\ spec \in Int /\ spec' \in Int /\ want \in Int
        /\ \A n \in Node : sts[n].image \in Int
    BY <2>1, ImageInt DEF TypeOK, StatefulSet
  <2>3. ImagesBounded'
    BY <2>1, <2>2 DEF ImagesBounded
  <2> QED
    BY <2>1, <2>3, QuietStep DEF OthersUnmarked, InOrder
<1>4. ASSUME NEW n \in Node, Deliver(n)
      PROVE  FreshInv'
  BY <1>4 DEF Deliver
<1>5. CASE \/ UNCHANGED vars
           \/ Bootstrap
           \/ \E n \in Node : \/ ReplacePod(n) \/ StartPod(n)
                              \/ LoadDatabases(n) \/ FailPod(n) \/ Observe(n)
  <2>1. UNCHANGED <<sts, seen, spec, pc, want, sel, upgrading, outcome>>
    BY <1>5 DEF vars, Bootstrap, ReplacePod, StartPod, LoadDatabases, FailPod,
                Observe, kube, run
  <2> QED
    BY <2>1, QuietStep DEF OthersUnmarked, ImagesBounded, InOrder
<1> QED BY <1>1, <1>2, <1>3, <1>4, <1>5 DEF World

(* The invariant holds before anything is created.                         *)
LEMMA InvInit == Init => FreshInv
<1> SUFFICES ASSUME Init PROVE FreshInv
  OBVIOUS
<1>1. \A n \in Node : ~Marked(sts[n]) /\ ~Exists(sts[n]) /\ sts[n].image = 0
  BY DEF Init, Absent, NoImage, Marked, Exists
<1>2. seen = sts /\ spec = 1 /\ pc = "idle" /\ outcome = "none"
  BY DEF Init
<1> QED
  BY <1>1, <1>2
     DEF FreshInv, MarkedExist, AtMostOneInFlight, OthersUnmarked,
         ImagesBounded, InOrder, Working

(* With fresh reads the invariant is inductive.                            *)
LEMMA InvStep ==
    ASSUME MaxLag = 0, TypeInv, FreshInv, [Next]_vars
    PROVE  FreshInv'
BY SearchStep, GateStep, StoreStep, OtherStep DEF Next, Operator

(* A step of a fresh run never lowers the image of a node, and marks a     *)
(* node only when the nodes before it have the image it is marked for.     *)
LEMMA WriteProperties ==
    ASSUME MaxLag = 0, TypeInv, FreshInv, [Next]_vars, NEW n \in Node
    PROVE  /\ sts[n].image <= sts'[n].image
           /\ ~Marked(sts[n]) /\ Marked(sts'[n]) =>
                 \A m \in 1 .. (n - 1) : sts[m].image >= sts'[n].mark
<1> USE DEF FreshInv, TypeInv
<1>1. sts[n] \in StatefulSet /\ sts[n].image \in Int
  BY ImageInt DEF TypeOK, StatefulSet
<1>2. CASE sts' = sts
  BY <1>1, <1>2
<1>3. ASSUME NEW v \in StatefulSet, pc \in Working, Store(sel, v),
             \/ v = Act(sel)
             \/ v = Annotated(sel, NoImage)
             \/ pc = "mark" /\ v = Annotated(sel, want)
      PROVE  /\ sts[n].image <= sts'[n].image
             /\ ~Marked(sts[n]) /\ Marked(sts'[n]) =>
                   \A m \in 1 .. (n - 1) : sts[m].image >= sts'[n].mark
  <2>1. sel \in Node /\ want \in Image
    BY <1>3 DEF RunOK, Working
  <2>2. sts' = [sts EXCEPT ![sel] = v]
    BY <1>3, <2>1, FreshStore
  <2>3. CASE n # sel
    BY <1>1, <2>1, <2>2, <2>3 DEF TypeOK
  <2>4. CASE n = sel
    <3>1. sts'[n] = v
      BY <2>1, <2>2, <2>4 DEF TypeOK
    <3>2. CASE v = Act(sel)
      BY <1>1, <1>3, <2>4, <3>1, <3>2, FreshWrites DEF Marked
    <3>3. CASE v = Annotated(sel, NoImage)
      BY <1>1, <1>3, <2>4, <3>1, <3>3, FreshWrites DEF Marked
    <3>4. CASE pc = "mark" /\ v = Annotated(sel, want)
      <4>1. v.image = sts[n].image /\ v.mark = want
        BY <1>3, <2>4, <3>4, FreshWrites DEF InOrder
      <4>2. \A m \in 1 .. (n - 1) : m \in Node /\ m < sel
        BY <2>1, <2>4, NAssumption DEF Node
      <4>3. \A m \in 1 .. (n - 1) : sts[m].image = want
        BY <3>4, <4>2 DEF InOrder
      <4>4. want \in Int
        BY <2>1, ImageInt
      <4> QED BY <1>1, <3>1, <4>1, <4>3, <4>4
    <3> QED BY <1>3, <3>2, <3>3, <3>4
  <2> QED BY <2>3, <2>4
<1>4. CASE Mark \/ MarkFails
  <2>1. pc = "mark" /\ pc \in Working /\ sel \in Node /\ want \in Image
    BY <1>4 DEF Mark, MarkFails, Go, Working, RunOK
  <2>2. Annotated(sel, want) \in StatefulSet
    BY <2>1, StoredType
  <2> QED BY <1>2, <1>3, <1>4, <2>1, <2>2 DEF Mark, MarkFails, StoreFails
<1>5. CASE ApplyStatefulSet \/ ApplyStatefulSetFails
  <2>1. pc \in Working /\ sel \in Node /\ want \in Image
    BY <1>5 DEF ApplyStatefulSet, ApplyStatefulSetFails, Go, Working, RunOK
  <2>2. Act(sel) \in StatefulSet
    BY <2>1, StoredType
  <2> QED
    BY <1>2, <1>3, <1>5, <2>1, <2>2
       DEF ApplyStatefulSet, ApplyStatefulSetFails, StoreFails
<1>6. CASE Clear
  <2>1. pc \in Working /\ sel \in Node /\ want \in Image
    BY <1>6 DEF Clear, Go, Working, RunOK
  <2>2. Annotated(sel, NoImage) \in StatefulSet
    BY <2>1, StoredType
  <2> QED BY <1>2, <1>3, <1>6, <2>1, <2>2 DEF Clear, StoreFails
<1>7. CASE \/ BuildGates \/ BuildGatesFails
           \/ FindInFlight \/ FindMissing \/ FindMismatch
           \/ Load \/ LoadMark \/ LoadFails
           \/ preNode \/ preNodeFails \/ postNode \/ postNodeFails
           \/ ApplyService \/ ApplyServiceFails
           \/ Report \/ Crash \/ UNCHANGED vars
  <2>1. sts' = sts
    BY <1>7 DEF BuildGates, BuildGatesFails, FindInFlight, FindMissing, FindMismatch,
       Load, LoadMark, LoadFails, preNode, preNodeFails, postNode, postNodeFails, Gate, GateFails,
       ApplyService, ApplyServiceFails, Report, Crash, vars, kube
  <2> QED BY <1>2, <2>1
<1>8. CASE World
  <2>1. sts' = sts
    BY <1>8 DEF World, RaiseImage, Bootstrap, Deliver, ReplacePod, StartPod,
       LoadDatabases, FailPod, Observe, kube
  <2> QED BY <1>2, <2>1
<1> QED BY <1>4, <1>5, <1>6, <1>7, <1>8 DEF Next, Operator

-----------------------------------------------------------------------------
(* The theorems. *)

(* With fresh reads at most one node is in the middle of an upgrade,       *)
(* whatever gates, writes and processes fail on the way.                   *)
THEOREM OneInFlight == MaxLag = 0 => (Spec => []AtMostOneInFlight)
<1> SUFFICES ASSUME MaxLag = 0 PROVE Spec => []AtMostOneInFlight
  OBVIOUS
<1>1. Init => TypeInv /\ FreshInv
  BY TypeInit, InvInit
<1>2. TypeInv /\ FreshInv /\ [Next]_vars => (TypeInv /\ FreshInv)'
  BY TypeStep, InvStep
<1>3. FreshInv => AtMostOneInFlight
  BY DEF FreshInv
<1> QED BY <1>1, <1>2, <1>3, PTL DEF Spec

(* With fresh reads no node ever gets an older image back.                 *)
THEOREM NeverRollsBack == MaxLag = 0 => (Spec => NoRollback)
<1> SUFFICES ASSUME MaxLag = 0 PROVE Spec => NoRollback
  OBVIOUS
<1>1. Init => TypeInv /\ FreshInv
  BY TypeInit, InvInit
<1>2. TypeInv /\ FreshInv /\ [Next]_vars => (TypeInv /\ FreshInv)'
  BY TypeStep, InvStep
<1>3. TypeInv /\ FreshInv /\ [Next]_vars =>
         [\A n \in Node : sts[n].image <= sts'[n].image]_vars
  BY WriteProperties
<1> QED BY <1>1, <1>2, <1>3, PTL DEF Spec, NoRollback

(* With fresh reads nodes are marked for an image in the spec's order.     *)
THEOREM InSpecOrder == MaxLag = 0 => (Spec => UpgradesInSpecOrder)
<1> SUFFICES ASSUME MaxLag = 0 PROVE Spec => UpgradesInSpecOrder
  OBVIOUS
<1>1. Init => TypeInv /\ FreshInv
  BY TypeInit, InvInit
<1>2. TypeInv /\ FreshInv /\ [Next]_vars => (TypeInv /\ FreshInv)'
  BY TypeStep, InvStep
<1>3. TypeInv /\ FreshInv /\ [Next]_vars =>
         [\A n \in Node :
             ~Marked(sts[n]) /\ Marked(sts'[n]) =>
                \A m \in 1 .. (n - 1) : sts[m].image >= sts'[n].mark]_vars
  BY WriteProperties
<1> QED BY <1>1, <1>2, <1>3, PTL DEF Spec, UpgradesInSpecOrder

=============================================================================
