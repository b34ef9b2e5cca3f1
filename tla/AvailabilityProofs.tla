------------------------- MODULE AvailabilityProofs -------------------------
(***************************************************************************)
(* Databases stay online through rolling upgrades, for any number of       *)
(* nodes and any placement of databases, as long as no node fails by       *)
(* itself, reads are fresh, pods are replaced before the next node is      *)
(* gated, and the observer has noticed that a node went down by the time   *)
(* it comes up: the conditions of CarefulSpec, none of which the operator  *)
(* waits for.                                                              *)
(***************************************************************************)
EXTENDS RollingUpgradeProofs

-----------------------------------------------------------------------------
(* The inductive invariant. *)

(* Every replicated database has a node other than n that serves it.       *)
Spared(n) == \A d \in Replicated : \E m \in d \ {n} : Serving(m)

(* The node's pod is about to be taken down for another image.             *)
Rolling(n) == Outdated(n) /\ pod[n].image # NoImage

(* No pod is about to be replaced, and none of a formed cluster is down.   *)
Calm == \A n \in Node : ~Outdated(n) /\ (formed => pod[n].state # "down")

(* A pod that has started has an image, one with an image has its          *)
(* StatefulSet, and every pod of a cluster that is formed has one.         *)
PodsExist ==
    \A n \in Node :
       /\ Serving(n) => pod[n].image # NoImage
       /\ pod[n].state = "loading" => pod[n].image # NoImage
       /\ pod[n].image # NoImage => Exists(sts[n])
       /\ formed => pod[n].image # NoImage

(* The report is outdated only about nodes that are down.                  *)
Watched ==
    \A n \in Node : reported[n] => Serving(n) \/ pod[n].state = "down"

(* While one pod is about to be taken down, no other is, nor is marked.    *)
OneRolling ==
    \A m, n \in Node : Rolling(n) /\ (Rolling(m) \/ Marked(sts[m])) => m = n

(* The connectivity gate found the cluster calm, and calm it stays until   *)
(* the node is applied.                                                    *)
CalmGate == pc \in {"preDB", "mark"} => Calm

(* The databases can spare every node that is marked, about to be marked   *)
(* or about to have its pod replaced.                                      *)
MarkedSpared == formed => \A n \in Node : Marked(sts[n]) \/ Rolling(n) => Spared(n)
SelectedSpared == formed /\ pc = "mark" => Spared(sel)

AvailInv ==
    /\ PodsExist
    /\ Watched
    /\ OneRolling
    /\ CalmGate
    /\ MarkedSpared
    /\ SelectedSpared
    /\ DatabasesStayOnline

(* A replicated database has a node besides any given one.                 *)
LEMMA AnotherNode ==
    ASSUME NEW d \in Replicated, NEW n
    PROVE  d \subseteq Node /\ \E m \in d : m # n
BY DatabasesAssumption DEF Replicated, Node

(* A step that changes no StatefulSet, no pod and no report keeps the      *)
(* invariant, when the run comes to its database gate only while the       *)
(* cluster is calm and to marking a node only when it can be spared.       *)
LEMMA QuietKeeps ==
    ASSUME AvailInv, UNCHANGED <<sts, pod, formed, reported>>,
           \/ UNCHANGED <<pc, sel>>
           \/ /\ pc' \in {"preDB", "mark"} => Calm
              /\ formed /\ pc' = "mark" => Spared(sel')
    PROVE  AvailInv'
<1> USE DEF AvailInv
<1>1. /\ \A n \in Node : Rolling(n)' = Rolling(n)
      /\ \A n \in Node : Serving(n)' = Serving(n)
      /\ Calm' = Calm
  BY DEF Rolling, Outdated, Serving, Calm
<1>2. \A n : Spared(n)' = Spared(n)
  BY DEF Spared, Serving
<1>3. PodsExist' /\ DatabasesStayOnline' /\ Watched'
  BY DEF PodsExist, DatabasesStayOnline, Watched, Serving
<1>4. OneRolling' /\ MarkedSpared'
  BY <1>1, <1>2 DEF OneRolling, MarkedSpared
<1>5. CalmGate'
  BY <1>1 DEF CalmGate
<1>6. SelectedSpared'
  BY DEF SelectedSpared, Spared, Serving
<1> QED BY <1>3, <1>4, <1>5, <1>6

(* Searching, loading, failing gates, Services, statuses and crashes.      *)
LEMMA RunKeeps ==
    ASSUME AvailInv,
           \/ BuildGates \/ BuildGatesFails
           \/ FindInFlight \/ FindMissing \/ FindMismatch
           \/ Load \/ LoadMark \/ LoadFails
           \/ preNodeFails \/ postNode \/ postNodeFails
           \/ ApplyService \/ ApplyServiceFails
           \/ Report \/ Crash
    PROVE  AvailInv'
<1>1. UNCHANGED <<sts, pod, formed, reported>>
  BY DEF BuildGates, BuildGatesFails, FindInFlight, FindMissing, FindMismatch,
         Load, LoadMark, LoadFails, preNodeFails, postNode, postNodeFails, Gate,
         GateFails, ApplyService, ApplyServiceFails, Report, Crash, kube, world
<1>2. pc' \notin {"preDB", "mark"}
  BY DEF BuildGates, BuildGatesFails, FindInFlight, FindMissing, FindMismatch, Select,
         Load, LoadMark, LoadFails, preNodeFails, postNode, postNodeFails, Gate,
         GateFails, ApplyService, ApplyServiceFails, AfterApplyFailed, Report, Crash,
         EndRun, Go
<1> QED BY <1>1, <1>2, QuietKeeps

(* The gates before a node. The connectivity gate finds the cluster calm.  *)
(* A node of a calm cluster that is reported ok does serve, so that the    *)
(* last gate shows that the databases can spare the selected node.         *)
LEMMA GatesKeep ==
    ASSUME AvailInv, preNode, Replaced
    PROVE  AvailInv'
<1> USE DEF AvailInv
<1>1. UNCHANGED <<sts, pod, formed, reported>> /\ sel' = sel
  BY DEF preNode, Gate, kube, world
<1>2. CASE Gate("preAlive", NodeAlive(sel), "preConn")
  BY <1>1, <1>2, QuietKeeps DEF Gate, Go
<1>3. CASE Gate("preConn", ClusterConnectivity, "preDB")
  <2>1. Calm /\ pc' = "preDB"
    BY <1>3 DEF Gate, Go, Replaced, Calm, ClusterConnectivity, NodeAlive
  <2> QED BY <1>1, <2>1, QuietKeeps
<1>4. CASE Gate("preDB", DatabasesOnline(sel), "mark")
  <2>1. Calm
    BY <1>4 DEF Gate, Go, CalmGate
  <2>2. ASSUME formed, NEW d \in Replicated
        PROVE  \E m \in d \ {sel} : Serving(m)
    <3>1. PICK m \in d \ {sel} : reported[m]
      BY <1>4, <2>2 DEF Gate, DatabasesOnline
    <3> QED BY <2>1, <2>2, <3>1, AnotherNode DEF Watched, Calm
  <2>3. formed => Spared(sel)
    BY <2>2 DEF Spared
  <2> QED BY <1>1, <2>1, <2>3, QuietKeeps
<1> QED BY <1>2, <1>3, <1>4 DEF preNode

(* Storing a StatefulSet of the selected node: an image changes only under *)
(* a mark, and the databases can spare the node if it is marked now.       *)
LEMMA StoreKeeps ==
    ASSUME AvailInv, TypeInv, FreshInv, pc \in Working, NEW v \in StatefulSet,
           sts' = [sts EXCEPT ![sel] = v],
           Exists(sts[sel]) => Exists(v),
           Exists(sts[sel]) /\ v.image # sts[sel].image => Marked(sts[sel]),
           Marked(v) => Calm \/ Marked(sts[sel]),
           formed /\ Marked(v) => Spared(sel),
           UNCHANGED <<pod, formed, reported, sel>>,
           pc' \notin {"preDB", "mark"}
    PROVE  AvailInv'
<1> USE DEF AvailInv, TypeInv, FreshInv
<1>1. sel \in Node
  BY DEF RunOK
<1>2. sts'[sel] = v /\ \A n \in Node : n # sel => sts'[n] = sts[n]
  BY <1>1 DEF TypeOK
<1>3. ASSUME NEW n \in Node, Rolling(n)', ~Rolling(n)
      PROVE  n = sel /\ Marked(sts[sel])
  <2>1. n = sel
    BY <1>2, <1>3 DEF Rolling, Outdated
  <2>2. Exists(sts[sel]) /\ v.image # sts[sel].image
    BY <1>1, <1>2, <1>3, <2>1 DEF Rolling, Outdated, PodsExist
  <2> QED BY <2>1, <2>2
<1>4. \A n \in Node : Marked(sts'[n]) => n = sel
  BY <1>1, <1>2 DEF OthersUnmarked
<1>5. \A n : Spared(n)' = Spared(n)
  BY DEF Spared, Serving
<1>6. PodsExist' /\ Watched'
  BY <1>1, <1>2 DEF PodsExist, Watched, Serving
<1>7. OneRolling'
  <2> SUFFICES ASSUME NEW m \in Node, NEW n \in Node,
                      Rolling(n)', Rolling(m)' \/ Marked(sts'[m])
               PROVE  m = n
    BY DEF OneRolling
  <2>1. CASE Marked(sts[sel])
    BY <1>1, <1>3, <1>4, <2>1 DEF OneRolling
  <2>2. CASE ~Marked(sts[sel])
    <3>1. Rolling(n) /\ ~Calm
      BY <1>3, <2>2 DEF Rolling, Calm
    <3> QED BY <1>1, <1>2, <1>3, <1>4, <2>2, <3>1 DEF OneRolling
  <2> QED BY <2>1, <2>2
<1>8. MarkedSpared'
  BY <1>1, <1>2, <1>3, <1>4, <1>5 DEF MarkedSpared
<1>9. SelectedSpared' /\ CalmGate' /\ DatabasesStayOnline'
  BY DEF SelectedSpared, CalmGate, DatabasesStayOnline, Serving
<1> QED BY <1>6, <1>7, <1>8, <1>9

(* The operator's writes.                                                  *)
LEMMA WritesKeep ==
    ASSUME MaxLag = 0, TypeInv, FreshInv, AvailInv,
           \/ Mark \/ MarkFails
           \/ ApplyStatefulSet \/ ApplyStatefulSetFails
           \/ Clear
    PROVE  AvailInv'
<1> USE DEF TypeInv, FreshInv
<1>1. /\ pc \in Working /\ sel \in Node /\ want \in Image
      /\ UNCHANGED <<pod, formed, reported, sel>>
      /\ pc' \notin {"preDB", "mark"}
  BY DEF Mark, MarkFails, ApplyStatefulSet, ApplyStatefulSetFails, Clear, Go,
         AfterApplyFailed, Working, RunOK, world
<1>2. CASE sts' = sts
  BY <1>1, <1>2, QuietKeeps
<1>3. ASSUME Store(sel, Annotated(sel, want)), Mark \/ MarkFails
      PROVE  AvailInv'
  <2> DEFINE v == Annotated(sel, want)
  <2>1. v \in StatefulSet
    BY <1>1, StoredType
  <2>2. sts' = [sts EXCEPT ![sel] = v]
    BY <1>1, <1>3, <2>1, FreshStore
  <2>3. v.image = sts[sel].image
    BY <1>1, FreshWrites
  <2>4. Calm /\ (formed => Spared(sel))
    BY <1>3 DEF Mark, MarkFails, Go, AvailInv, SelectedSpared, CalmGate
  <2> HIDE DEF v
  <2> QED BY <1>1, <2>1, <2>2, <2>3, <2>4, StoreKeeps DEF Exists
<1>4. ASSUME Store(sel, Annotated(sel, NoImage)), Clear
      PROVE  AvailInv'
  <2> DEFINE v == Annotated(sel, NoImage)
  <2>1. v \in StatefulSet
    BY <1>1, StoredType
  <2>2. sts' = [sts EXCEPT ![sel] = v]
    BY <1>1, <1>4, <2>1, FreshStore
  <2>3. v.image = sts[sel].image /\ ~Marked(v)
    BY <1>1, FreshWrites DEF Marked, MarkedExist
  <2> HIDE DEF v
  <2> QED BY <1>1, <2>1, <2>2, <2>3, StoreKeeps DEF Exists
<1>5. ASSUME Store(sel, Act(sel)), ApplyStatefulSet \/ ApplyStatefulSetFails
      PROVE  AvailInv'
  <2> DEFINE v == Act(sel)
  <2>1. v \in StatefulSet
    BY <1>1, StoredType
  <2>2. sts' = [sts EXCEPT ![sel] = v]
    BY <1>1, <1>5, <2>1, FreshStore
  <2>3. v.mark = sts[sel].mark /\ (Exists(sts[sel]) => Exists(v))
    <3>1. v.mark = sts[sel].mark /\ (Marked(sts[sel]) => v.image = want)
      BY <1>1, FreshWrites
    <3>2. Exists(sts[sel]) /\ ~Marked(sts[sel]) => v.image = sts[sel].image
      BY <1>1 DEF Act, TypeOK, StatefulSet
    <3> QED BY <1>1, <3>1, <3>2 DEF Exists, NoImage, Image
  <2>4. Exists(sts[sel]) /\ v.image # sts[sel].image => Marked(sts[sel])
    BY <1>1 DEF Act, TypeOK, StatefulSet
  <2>5. Marked(v) => Marked(sts[sel]) /\ (formed => Spared(sel))
    BY <1>1, <2>3 DEF AvailInv, MarkedSpared, Marked
  <2> HIDE DEF v
  <2> QED BY <1>1, <2>1, <2>2, <2>3, <2>4, <2>5, StoreKeeps
<1> QED
  BY <1>2, <1>3, <1>4, <1>5
     DEF Mark, MarkFails, ApplyStatefulSet, ApplyStatefulSetFails, Clear, StoreFails

(* Replacing a pod takes down a node that the databases can spare, and     *)
(* nothing that a marked node relies on.                                   *)
LEMMA ReplaceKeeps ==
    ASSUME TypeInv, AvailInv, NEW n \in Node, ReplacePod(n)
    PROVE  AvailInv'
<1> USE DEF AvailInv, TypeInv
<1>1. /\ Outdated(n) /\ UNCHANGED <<sts, formed, reported, pc, sel>>
      /\ pod' = [pod EXCEPT ![n] = [image |-> sts[n].image, state |-> "down"]]
  BY DEF ReplacePod, kube, run
<1>2. /\ pod'[n] = [image |-> sts[n].image, state |-> "down"]
      /\ \A m \in Node : m # n => pod'[m] = pod[m]
  BY <1>1 DEF TypeOK
<1>3. \A m \in Node : m # n => Serving(m)' = Serving(m)
  BY <1>2 DEF Serving
<1>4. Exists(sts[n])
  BY <1>1 DEF Outdated
<1>5. PodsExist' /\ Watched'
  BY <1>1, <1>2, <1>4 DEF PodsExist, Watched, Serving, Exists
<1>6. \A m \in Node : Rolling(m)' => Rolling(m) /\ m # n
  BY <1>1, <1>2 DEF Rolling, Outdated
<1>7. OneRolling'
  BY <1>1, <1>6 DEF OneRolling
<1>8. ~Calm /\ pc \notin {"preDB", "mark"}
  BY <1>1 DEF Calm, CalmGate
<1>9. CalmGate' /\ SelectedSpared'
  BY <1>1, <1>8 DEF CalmGate, SelectedSpared
<1>10. CASE formed
  <2>1. Rolling(n) /\ Spared(n)
    BY <1>1, <1>10 DEF MarkedSpared, Rolling, PodsExist
  <2>2. ASSUME NEW d \in Replicated
        PROVE  \E m \in d \ {n} : Serving(m)'
    <3>1. PICK m \in d \ {n} : Serving(m)
      BY <2>1 DEF Spared
    <3> QED BY <1>3, <3>1, AnotherNode
  <2>3. Spared(n)' /\ DatabasesStayOnline'
    BY <2>2 DEF Spared, DatabasesStayOnline
  <2>4. MarkedSpared'
    BY <1>1, <1>6, <2>1, <2>3 DEF MarkedSpared, OneRolling
  <2> QED BY <1>5, <1>7, <1>9, <2>3, <2>4
<1>11. CASE ~formed
  <2>1. DatabasesStayOnline' /\ MarkedSpared'
    BY <1>1, <1>11 DEF DatabasesStayOnline, MarkedSpared
  <2> QED BY <1>5, <1>7, <1>9, <2>1
<1> QED BY <1>10, <1>11

(* A pod that comes up takes nothing away, and is not reported ok before   *)
(* it serves.                                                              *)
LEMMA ComeUpKeeps ==
    ASSUME TypeInv, AvailInv, Noticed, NEW n \in Node, StartPod(n) \/ LoadDatabases(n)
    PROVE  AvailInv'
<1> USE DEF AvailInv, TypeInv
<1>1. UNCHANGED <<sts, formed, reported, pc, sel>>
  BY DEF StartPod, LoadDatabases, kube, run
<1>2. /\ pod'[n].image = pod[n].image
      /\ pod[n].image # NoImage
      /\ ~Serving(n)
      /\ pod'[n].state # "down"
      /\ \A m \in Node : m # n => pod'[m] = pod[m]
  BY DEF StartPod, LoadDatabases, TypeOK, Pod, PodsExist, Serving
<1>3. \A m \in Node : Serving(m) => Serving(m)'
  BY <1>2 DEF Serving
<1>4. \A m : Spared(m) => Spared(m)'
  BY <1>3, AnotherNode DEF Spared
<1>5. \A m \in Node : Outdated(m)' = Outdated(m) /\ Rolling(m)' = Rolling(m)
  BY <1>1, <1>2 DEF Rolling, Outdated
<1>6. PodsExist'
  BY <1>1, <1>2 DEF PodsExist, Serving
<1>7. Watched'
  <2>1. pod[n].state = "down" => ~reported[n]
    BY <1>2 DEF Noticed
  <2>2. ~reported[n]
    BY <1>2, <2>1 DEF Watched
  <2> QED BY <1>1, <1>2, <2>2 DEF Watched, Serving
<1>8. OneRolling' /\ MarkedSpared'
  BY <1>1, <1>4, <1>5 DEF OneRolling, MarkedSpared
<1>9. CalmGate'
  BY <1>1, <1>2, <1>5 DEF CalmGate, Calm
<1>10. SelectedSpared'
  BY <1>1, <1>4 DEF SelectedSpared, Spared, Serving
<1>11. DatabasesStayOnline'
  BY <1>1, <1>3, AnotherNode DEF DatabasesStayOnline
<1> QED BY <1>6, <1>7, <1>8, <1>9, <1>10, <1>11

(* The observer reports what it finds.                                     *)
LEMMA ObserveKeeps ==
    ASSUME TypeInv, AvailInv, NEW n \in Node, Observe(n)
    PROVE  AvailInv'
<1> USE DEF AvailInv, TypeInv
<1>1. /\ UNCHANGED <<sts, pod, formed, pc, sel>>
      /\ reported' = [reported EXCEPT ![n] = Serving(n)]
  BY DEF Observe, kube, run
<1>2. PodsExist' /\ DatabasesStayOnline' /\ SelectedSpared'
  BY <1>1 DEF PodsExist, DatabasesStayOnline, SelectedSpared, Spared, Serving
<1>3. Watched'
  BY <1>1 DEF Watched, Serving, TypeOK
<1>4. /\ \A m \in Node : Rolling(m)' = Rolling(m) /\ Spared(m)' = Spared(m)
      /\ Calm' = Calm
  BY <1>1 DEF Rolling, Outdated, Spared, Serving, Calm
<1>5. OneRolling' /\ CalmGate' /\ MarkedSpared'
  BY <1>1, <1>4 DEF OneRolling, CalmGate, MarkedSpared
<1> QED BY <1>2, <1>3, <1>5

(* The cluster is formed when all nodes serve: any one can be spared.      *)
LEMMA BootstrapKeeps ==
    ASSUME AvailInv, Bootstrap
    PROVE  AvailInv'
<1> USE DEF AvailInv
<1>1. /\ UNCHANGED <<sts, pod, reported, pc, sel>>
      /\ \A n \in Node : Serving(n)
  BY DEF Bootstrap, kube, run
<1>2. \A n \in Node : Serving(n)'
  BY <1>1 DEF Serving
<1>3. \A n : Spared(n)'
  BY <1>2, AnotherNode DEF Spared
<1>4. DatabasesStayOnline'
  BY <1>2, AnotherNode DEF DatabasesStayOnline
<1>5. PodsExist' /\ Watched'
  BY <1>1 DEF PodsExist, Watched, Serving
<1>6. OneRolling'
  BY <1>1 DEF OneRolling, Rolling, Outdated
<1>7. CalmGate'
  BY <1>1 DEF CalmGate, Calm, Outdated, Serving
<1>8. MarkedSpared'
  BY <1>3 DEF MarkedSpared
<1>9. SelectedSpared'
  <2>1. \A d \in Replicated : \E m \in d \ {sel'} : Serving(m)'
    BY <1>2, AnotherNode
  <2> QED BY <2>1 DEF SelectedSpared, Spared
<1> QED BY <1>4, <1>5, <1>6, <1>7, <1>8, <1>9

(* The invariant holds before anything exists.                             *)
LEMMA AvailInit == Init => AvailInv
BY DEF Init, AvailInv, PodsExist, Watched, OneRolling, CalmGate, MarkedSpared,
       SelectedSpared, DatabasesStayOnline, Serving, Rolling, Outdated, Absent,
       Exists, NoImage

(* Every step of CarefulSpec keeps it.                                     *)
LEMMA AvailStep ==
    ASSUME MaxLag = 0, "node" \notin Troubles,
           TypeInv, FreshInv, AvailInv, [CarefulNext]_vars
    PROVE  AvailInv'
<1>1. CASE UNCHANGED <<sts, pod, formed, reported, pc, sel>>
  BY <1>1, QuietKeeps
<1>2. CASE UNCHANGED vars
  BY <1>1, <1>2 DEF vars
<1>3. CASE Next /\ Replaced /\ Noticed
  <2>1. CASE Operator \/ Crash
    BY <1>3, <2>1, RunKeeps, GatesKeep, WritesKeep DEF Operator
  <2>2. CASE World
    <3>1. CASE RaiseImage \/ \E n \in Node : Deliver(n)
      BY <1>1, <3>1 DEF RaiseImage, Deliver, kube, world, run
    <3>2. ASSUME NEW n \in Node PROVE ~FailPod(n)
      BY DEF FailPod, Hit
    <3> QED
      BY <1>3, <2>2, <3>1, <3>2, BootstrapKeeps, ReplaceKeeps, ComeUpKeeps,
         ObserveKeeps DEF World
  <2> QED BY <1>3, <2>1, <2>2 DEF Next
<1> QED BY <1>2, <1>3 DEF CarefulNext

(* While no node fails by itself, rolling upgrades with fresh reads, with  *)
(* pods replaced and their going down noticed in time, leave every         *)
(* replicated database of a formed cluster a node that serves it, through  *)
(* failed gates, failed writes and crashes of the operator: the database   *)
(* gate of DatabasesOnline, which reads a report of the past, suffices     *)
(* under these conditions.                                                 *)
THEOREM StaysOnline ==
    MaxLag = 0 /\ "node" \notin Troubles => (CarefulSpec => []DatabasesStayOnline)
<1> SUFFICES ASSUME MaxLag = 0, "node" \notin Troubles
             PROVE  CarefulSpec => []DatabasesStayOnline
  OBVIOUS
<1> DEFINE Inv == TypeInv /\ FreshInv /\ AvailInv
<1>1. Init => Inv
  BY TypeInit, InvInit, AvailInit
<1>2. Inv /\ [CarefulNext]_vars => Inv'
  <2> SUFFICES ASSUME Inv, [CarefulNext]_vars PROVE Inv'
    OBVIOUS
  <2>1. [Next]_vars
    BY DEF CarefulNext
  <2> QED BY <2>1, TypeStep, InvStep, AvailStep
<1>3. Inv => DatabasesStayOnline
  BY DEF AvailInv
<1> QED BY <1>1, <1>2, <1>3, PTL DEF CarefulSpec

=============================================================================
