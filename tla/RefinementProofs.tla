-------------------------- MODULE RefinementProofs --------------------------
(***************************************************************************)
(* RollingUpgrade implements NodeByNode: every step of a run, of a failure *)
(* or of the world is a step of the abstract specification, or leaves the  *)
(* abstract state alone.                                                   *)
(***************************************************************************)
EXTENDS RollingUpgradeProofs

-----------------------------------------------------------------------------
(* What the abstract steps need beyond the invariant of a fresh run. *)

(* The two reads of the selected node, and the steps from there to a mark. *)
Loading == {"load", "loadMark"}
Gating == {"preAlive", "preConn", "preDB", "mark"}

(* A run that is going to mark a node found all nodes in existence and     *)
(* this one outdated; one that is going to create a node found all nodes   *)
(* before it in existence.                                                 *)
Chosen ==
    /\ \/ pc \in Gating
       \/ pc \in Loading /\ Exists(sts[sel]) /\ ~Marked(sts[sel])
       => sts[sel].image # want /\ \A m \in Node : Exists(sts[m])
    /\ pc \in Loading \cup {"applySts"} /\ ~Exists(sts[sel]) =>
          \A m \in Node : m < sel => Exists(sts[m])

(* A step that leaves StatefulSets, node and image of the run alone keeps  *)
(* that, when it goes on to no step that needs more.                       *)
LEMMA ChosenKept ==
    ASSUME Chosen, UNCHANGED <<sts, sel, want>>,
           \/ pc' = pc
           \/ pc \in Gating /\ pc' \in Gating
           \/ pc' \notin Gating \cup Loading \cup {"applySts"}
    PROVE  Chosen'
BY DEF Chosen, Loading, Gating

(* Every step of a fresh run keeps it.                                     *)
LEMMA ChosenStep ==
    ASSUME MaxLag = 0, TypeInv, FreshInv, Chosen, [Next]_vars
    PROVE  Chosen'
<1> USE DEF FreshInv, TypeInv
<1>1. CASE BuildGates \/ BuildGatesFails \/ LoadFails \/ Report \/ Crash
  BY <1>1 DEF BuildGates, BuildGatesFails, LoadFails, Report, Crash, EndRun, Go,
              Chosen, Loading, Gating
<1>2. CASE FindInFlight
  <2>1. ASSUME NEW n \in Node, First(n, InFlight), Select(n), sts' = sts
        PROVE  Chosen'
    <3>1. Exists(sts[n]) /\ Marked(sts[n])
      BY <2>1 DEF First, InFlight
    <3> QED BY <2>1, <3>1 DEF Select, Chosen, Loading, Gating
  <2> QED BY <1>2, <2>1 DEF FindInFlight, kube, Chosen, Loading, Gating
<1>3. CASE FindMissing
  <2>1. ASSUME NEW n \in Node, First(n, Missing), Select(n), sts' = sts
        PROVE  Chosen'
    <3>1. ~Exists(sts[n])
      BY <2>1 DEF First, Missing
    <3>2. \A m \in Node : m < n => Exists(sts[m])
      BY <2>1 DEF First, Missing, Node
    <3> QED BY <2>1, <3>1, <3>2 DEF Select, Chosen, Loading, Gating
  <2> QED BY <1>3, <2>1 DEF FindMissing, kube, Chosen, Loading, Gating
<1>4. CASE FindMismatch
  <2>1. ASSUME NEW n \in Node, First(n, Mismatched), Select(n),
               sts' = sts, want' = want
        PROVE  Chosen'
    <3>1. sts[n].image # want
      BY <2>1 DEF First, Mismatched
    <3>2. \A m \in Node : Exists(sts[m])
      BY <1>4 DEF FindMismatch, InOrder
    <3> QED BY <2>1, <3>1, <3>2 DEF Select, Chosen, Loading, Gating
  <2> QED BY <1>4, <2>1 DEF FindMismatch, kube, Chosen, Loading, Gating
<1>5. CASE Load \/ LoadMark
  <2>1. UNCHANGED <<sts, sel, want>> /\ pc \in Loading
        /\ pc' \in {"loadMark", "preAlive", "applySts"}
    BY <1>5 DEF Load, LoadMark, kube, Loading
  <2>2. pc' = "preAlive" => Exists(sts[sel]) /\ ~Marked(sts[sel])
    BY <1>5 DEF Load, LoadMark, InOrder
  <2> QED BY <2>1, <2>2 DEF Chosen, Loading, Gating
<1>6. CASE preNode \/ preNodeFails \/ postNode \/ postNodeFails
  <2>1. UNCHANGED <<sts, sel, want>>
    BY <1>6 DEF preNode, preNodeFails, postNode, postNodeFails, Gate, GateFails, kube
  <2>2. (pc \in Gating /\ pc' \in Gating) \/ pc' \notin Gating \cup Loading \cup {"applySts"}
    BY <1>6 DEF preNode, preNodeFails, postNode, postNodeFails, Gate, GateFails, Go, Loading, Gating
  <2> QED BY <2>1, <2>2, ChosenKept
<1>7. CASE Mark
  <2>1. /\ pc = "mark" /\ pc \in Working /\ sel \in Node /\ want \in Image
        /\ sel' = sel /\ pc' = "applySts"
    BY <1>7 DEF Mark, Go, Working, RunOK
  <2>2. Annotated(sel, want) \in StatefulSet
    BY <2>1, StoredType
  <2>3. sts' = [sts EXCEPT ![sel] = Annotated(sel, want)]
    BY <1>7, <2>1, <2>2, FreshStore DEF Mark
  <2>4. sts'[sel].image = sts[sel].image /\ Exists(sts[sel])
    BY <2>1, <2>3, FreshWrites DEF TypeOK, InOrder
  <2> QED BY <2>1, <2>4 DEF Chosen, Loading, Gating, Exists
<1>8. CASE MarkFails \/ ApplyStatefulSet \/ ApplyStatefulSetFails \/ Clear
           \/ ApplyService \/ ApplyServiceFails
  BY <1>8 DEF MarkFails, ApplyStatefulSet, ApplyStatefulSetFails, Clear,
              ApplyService, ApplyServiceFails, AfterApplyFailed, Go, Chosen, Loading, Gating
<1>9. CASE World \/ UNCHANGED vars
  <2>1. UNCHANGED <<sts, sel, want, pc>>
    BY <1>9 DEF World, RaiseImage, Bootstrap, Deliver, ReplacePod, StartPod,
       LoadDatabases, FailPod, Observe, kube, run, vars
  <2> QED BY <2>1, ChosenKept
<1> QED
  BY <1>1, <1>2, <1>3, <1>4, <1>5, <1>6, <1>7, <1>8, <1>9 DEF Next, Operator

-----------------------------------------------------------------------------
(* The node that is taken up. *)

(* The only marked node is the active one.                                 *)
LEMMA ActiveNode ==
    ASSUME NEW s, NEW n \in Node, Marked(s[n]),
           \A m \in Node : Marked(s[m]) => m = n
    PROVE  (IF \E k \in Node : Marked(s[k])
            THEN CHOOSE k \in Node : Marked(s[k]) ELSE 0) = n
<1>1. (CHOOSE k \in Node : Marked(s[k])) = n
  <2>1. PICK k : k = (CHOOSE j \in Node : Marked(s[j]))
    OBVIOUS
  <2>2. k \in Node /\ Marked(s[k])
    BY <2>1
  <2> QED BY <2>1, <2>2
<1> QED BY <1>1

(* Without a marked node there is none.                                    *)
LEMMA NoActiveNode ==
    ASSUME NEW s, \A m \in Node : ~Marked(s[m])
    PROVE  (IF \E k \in Node : Marked(s[k])
            THEN CHOOSE k \in Node : Marked(s[k]) ELSE 0) = 0
OBVIOUS

(* Two states with the same marked nodes have the same active node.        *)
LEMMA SameActiveNode ==
    ASSUME NEW s, NEW t,
           \A m, n \in Node : Marked(s[m]) /\ Marked(s[n]) => m = n,
           \A m \in Node : Marked(t[m]) <=> Marked(s[m])
    PROVE  (IF \E k \in Node : Marked(t[k])
            THEN CHOOSE k \in Node : Marked(t[k]) ELSE 0)
           = (IF \E k \in Node : Marked(s[k])
              THEN CHOOSE k \in Node : Marked(s[k]) ELSE 0)
<1>1. CASE \E n \in Node : Marked(s[n])
  <2>1. PICK n \in Node : Marked(s[n])
    BY <1>1
  <2>2. /\ \A m \in Node : Marked(s[m]) => m = n
        /\ \A m \in Node : Marked(t[m]) => m = n
        /\ Marked(t[n])
    BY <2>1
  <2> QED BY <2>1, <2>2, ActiveNode
<1>2. CASE \A n \in Node : ~Marked(s[n])
  BY <1>2, NoActiveNode
<1> QED BY <1>1, <1>2

-----------------------------------------------------------------------------
(* Steps of a run as steps of NodeByNode. *)

(* The images of the nodes, as the abstract specification sees them.       *)
Images(s) == [n \in Node |-> s[n].image]

(* A step that changes neither the target nor any StatefulSet is invisible.*)
LEMMA Stutter ==
    ASSUME UNCHANGED <<spec, sts>>
    PROVE  UNCHANGED Abstract!vars
BY DEF Abstract!vars, Active

(* The user's change of the image is the abstract one.                     *)
LEMMA RaiseMaps ==
    ASSUME TypeInv, RaiseImage
    PROVE  Abstract!Raise
<1>1. UNCHANGED sts /\ spec \in Image /\ spec' \in Image /\ spec' > spec
  BY DEF RaiseImage, kube, TypeInv, TypeOK
<1>2. spec' \in (spec + 1) .. MaxImage
  BY <1>1, ImageAssumption DEF Image
<1> QED BY <1>1, <1>2 DEF Abstract!Raise, Active

(* Storing the mark takes the node up, unless it was up already.           *)
LEMMA MarkMaps ==
    ASSUME MaxLag = 0, TypeInv, FreshInv, Chosen, pc = "mark",
           Store(sel, Annotated(sel, want)), spec' = spec
    PROVE  Abstract!TakeUp(sel) \/ UNCHANGED Abstract!vars
<1> USE DEF FreshInv, TypeInv
<1>1. pc \in Working /\ sel \in Node /\ want \in Image /\ spec \in Image
  BY DEF Working, RunOK, TypeOK
<1>2. Annotated(sel, want) \in StatefulSet
  BY <1>1, StoredType
<1>3. sts' = [sts EXCEPT ![sel] = Annotated(sel, want)]
  BY <1>1, <1>2, FreshStore
<1>4. sts'[sel].image = sts[sel].image /\ sts'[sel].mark = want
  BY <1>1, <1>3, FreshWrites DEF TypeOK, InOrder
<1>5. \A n \in Node : n # sel => sts'[n] = sts[n] /\ ~Marked(sts[n])
  BY <1>1, <1>3 DEF TypeOK, OthersUnmarked
<1>6. Images(sts') = Images(sts)
  BY <1>4, <1>5 DEF Images
<1>7. Marked(sts'[sel])
  BY <1>1, <1>4 DEF Marked, NoImage, Image
<1>8. Active' = sel
  BY <1>1, <1>5, <1>7, ActiveNode DEF Active
<1>9. CASE Marked(sts[sel])
  <2>1. Active = sel
    BY <1>1, <1>5, <1>9, ActiveNode DEF Active
  <2> QED BY <1>6, <1>8, <2>1 DEF Abstract!vars, Images
<1>10. CASE ~Marked(sts[sel])
  <2>1. Active = 0
    BY <1>5, <1>10, NoActiveNode DEF Active
  <2>2. /\ sts[sel].image \in Int /\ want \in Int /\ spec \in Int
        /\ \A m \in Node : sts[m].image \in Int
    BY <1>1, ImageInt DEF TypeOK, StatefulSet
  <2>3. sts[sel].image # want /\ sts[sel].image <= want /\ want <= spec
    BY <1>1 DEF Chosen, Loading, Gating, ImagesBounded
  <2>4. want \in (sts[sel].image + 1) .. spec
    BY <2>2, <2>3
  <2>5. \A m \in Node : sts[m].image # 0 /\ (m < sel => sts[m].image >= want)
    BY <2>2 DEF Chosen, Loading, Gating, InOrder, Exists, NoImage
  <2>6. /\ Images(sts)[sel] = sts[sel].image
        /\ \A m \in 1 .. N : Images(sts)[m] = sts[m].image
    BY <1>1 DEF Images, Node
  <2>7. \E i \in (Images(sts)[sel] + 1) .. spec :
           \A m \in 1 .. N : Images(sts)[m] # 0 /\ (m < sel => Images(sts)[m] >= i)
    BY <2>4, <2>5, <2>6 DEF Node
  <2> QED BY <1>6, <1>8, <2>1, <2>7 DEF Abstract!TakeUp, Images
<1> QED BY <1>9, <1>10

(* Applying the node creates it, moves the marked node on, or rewrites     *)
(* what is there.                                                          *)
LEMMA ApplyMaps ==
    ASSUME MaxLag = 0, TypeInv, FreshInv, Chosen, pc = "applySts",
           Store(sel, Act(sel)), spec' = spec
    PROVE  Abstract!Create(sel) \/ Abstract!MoveOn(sel) \/ UNCHANGED Abstract!vars
<1> USE DEF FreshInv, TypeInv
<1>1. pc \in Working /\ sel \in Node /\ want \in Image /\ spec \in Image
  BY DEF Working, RunOK, TypeOK
<1>2. Act(sel) \in StatefulSet
  BY <1>1, StoredType
<1>3. sts' = [sts EXCEPT ![sel] = Act(sel)]
  BY <1>1, <1>2, FreshStore
<1>4. sts'[sel] = Act(sel) /\ sts'[sel].mark = sts[sel].mark
  BY <1>1, <1>3, FreshWrites DEF TypeOK
<1>5. \A n \in Node : n # sel => sts'[n] = sts[n] /\ ~Marked(sts[n])
  BY <1>1, <1>3 DEF TypeOK, OthersUnmarked
<1>6. \A n \in Node : Marked(sts'[n]) <=> Marked(sts[n])
  BY <1>4, <1>5 DEF Marked
<1>7. Active' = Active
  BY <1>6, SameActiveNode DEF Active, AtMostOneInFlight
<1>8. Images(sts') = [Images(sts) EXCEPT ![sel] = Act(sel).image]
  BY <1>1, <1>4, <1>5 DEF Images
<1>9. /\ sts[sel].image \in Int /\ want \in Int /\ spec \in Int
      /\ 0 < want /\ want <= spec /\ sts[sel].image <= want
  <2>1. sts[sel].image \in Int /\ want \in Int /\ spec \in Int
    BY <1>1, ImageInt DEF TypeOK, StatefulSet
  <2>2. 0 < want
    BY <1>1, ImageAssumption DEF Image
  <2>3. want <= spec /\ sts[sel].image <= want
    BY <1>1 DEF ImagesBounded
  <2> QED BY <2>1, <2>2, <2>3
<1>10. /\ Images(sts)[sel] = sts[sel].image
       /\ \A m \in Node : Images(sts)[m] = sts[m].image
  BY <1>1 DEF Images
<1>11. CASE Act(sel).image = sts[sel].image
  <2>1. Images(sts') = Images(sts)
    BY <1>1, <1>4, <1>5, <1>11 DEF Images
  <2> QED BY <1>7, <2>1 DEF Abstract!vars, Images
<1>12. CASE ~Exists(sts[sel])
  <2>1. Act(sel).image = want /\ sts[sel].image = 0 /\ ~Marked(sts[sel])
    BY <1>1, <1>12, FreshWrites DEF Exists, NoImage, MarkedExist
  <2>2. Active = 0
    BY <1>5, <2>1, NoActiveNode DEF Active
  <2>3. \A m \in 1 .. (sel - 1) : m \in Node /\ m < sel
    BY <1>1, NAssumption DEF Node
  <2>4. \A m \in 1 .. (sel - 1) : Images(sts)[m] # 0
    BY <1>10, <1>12, <2>3 DEF Chosen, Exists, NoImage
  <2>5. want \in 1 .. spec
    BY <1>9
  <2> QED
    BY <1>7, <1>8, <1>10, <2>1, <2>2, <2>4, <2>5 DEF Abstract!Create, Images
<1>13. CASE Exists(sts[sel]) /\ Act(sel).image # sts[sel].image
  <2>1. Marked(sts[sel])
    BY <1>1, <1>13 DEF Act
  <2>2. Act(sel).image = want
    BY <1>1, <2>1, FreshWrites
  <2>3. Active = sel
    BY <1>1, <1>5, <2>1, ActiveNode DEF Active
  <2>4. want \in (Images(sts)[sel] + 1) .. spec
    BY <1>9, <1>10, <1>13, <2>2
  <2> QED
    BY <1>7, <1>8, <2>2, <2>3, <2>4 DEF Abstract!MoveOn, Images
<1> QED BY <1>11, <1>12, <1>13

(* Removing the mark puts the node down, if it was up.                     *)
LEMMA ClearMaps ==
    ASSUME MaxLag = 0, TypeInv, FreshInv, pc = "clear",
           Store(sel, Annotated(sel, NoImage)), spec' = spec
    PROVE  Abstract!PutDown \/ UNCHANGED Abstract!vars
<1> USE DEF FreshInv, TypeInv
<1>1. pc \in Working /\ sel \in Node /\ want \in Image
  BY DEF Working, RunOK, TypeOK
<1>2. Annotated(sel, NoImage) \in StatefulSet
  BY <1>1, StoredType
<1>3. sts' = [sts EXCEPT ![sel] = Annotated(sel, NoImage)]
  BY <1>1, <1>2, FreshStore
<1>4. sts'[sel].image = sts[sel].image /\ ~Marked(sts'[sel])
  BY <1>1, <1>3, FreshWrites DEF TypeOK, MarkedExist, Marked
<1>5. \A n \in Node : n # sel => sts'[n] = sts[n] /\ ~Marked(sts[n])
  BY <1>1, <1>3 DEF TypeOK, OthersUnmarked
<1>6. Images(sts') = Images(sts)
  BY <1>4, <1>5 DEF Images
<1>7. \A n \in Node : ~Marked(sts'[n])
  BY <1>4, <1>5
<1>8. Active' = 0
  BY <1>7, NoActiveNode DEF Active
<1> QED BY <1>6, <1>8 DEF Abstract!PutDown, Abstract!vars, Images

(* Every step is an abstract step or invisible.                            *)
LEMMA StepMaps ==
    ASSUME MaxLag = 0, TypeInv, FreshInv, Chosen, [Next]_vars
    PROVE  [Abstract!Next]_(Abstract!vars)
<1>1. CASE UNCHANGED <<spec, sts>>
  BY <1>1, Stutter
<1>2. CASE Mark \/ MarkFails
  <2>1. pc = "mark" /\ spec' = spec /\ sel \in 1 .. N
    BY <1>2 DEF Mark, MarkFails, Go, world, TypeInv, RunOK, Working, Node
  <2>2. Store(sel, Annotated(sel, want)) \/ UNCHANGED <<spec, sts>>
    BY <1>2, <2>1 DEF Mark, MarkFails, StoreFails
  <2> QED BY <1>1, <2>1, <2>2, MarkMaps DEF Abstract!Next
<1>3. CASE ApplyStatefulSet \/ ApplyStatefulSetFails
  <2>1. pc = "applySts" /\ spec' = spec /\ sel \in 1 .. N
    BY <1>3 DEF ApplyStatefulSet, ApplyStatefulSetFails, Go, world, TypeInv, RunOK,
                Working, Node
  <2>2. Store(sel, Act(sel)) \/ UNCHANGED <<spec, sts>>
    BY <1>3, <2>1 DEF ApplyStatefulSet, ApplyStatefulSetFails, StoreFails
  <2>3. CASE Store(sel, Act(sel))
    <3>1. Abstract!Create(sel) \/ Abstract!MoveOn(sel) \/ UNCHANGED Abstract!vars
      BY <2>1, <2>3, ApplyMaps
    <3>2. Abstract!Create(sel) => Abstract!Next
      BY <2>1 DEF Abstract!Next, Abstract!Create
    <3>3. Abstract!MoveOn(sel) => Abstract!Next
      BY <2>1 DEF Abstract!Next, Abstract!MoveOn
    <3> QED BY <3>1, <3>2, <3>3
  <2> QED BY <1>1, <2>2, <2>3
<1>4. CASE Clear
  <2>1. pc = "clear" /\ spec' = spec
    BY <1>4 DEF Clear, Go, world
  <2>2. Store(sel, Annotated(sel, NoImage)) \/ UNCHANGED <<spec, sts>>
    BY <1>4, <2>1 DEF Clear, StoreFails
  <2> QED BY <1>1, <2>1, <2>2, ClearMaps DEF Abstract!Next
<1>5. CASE RaiseImage
  BY <1>5, RaiseMaps DEF Abstract!Next
<1>6. CASE \/ BuildGates \/ BuildGatesFails
           \/ FindInFlight \/ FindMissing \/ FindMismatch
           \/ Load \/ LoadMark \/ LoadFails
           \/ preNode \/ preNodeFails \/ postNode \/ postNodeFails
           \/ ApplyService \/ ApplyServiceFails
           \/ Report \/ Crash \/ UNCHANGED vars
  <2>1. UNCHANGED <<spec, sts>>
    BY <1>6 DEF BuildGates, BuildGatesFails, FindInFlight, FindMissing, FindMismatch,
       Load, LoadMark, LoadFails, preNode, preNodeFails, postNode, postNodeFails, Gate, GateFails,
       ApplyService, ApplyServiceFails, Report, Crash, vars, kube, world
  <2> QED BY <1>1, <2>1
<1>7. CASE Bootstrap
  BY <1>1, <1>7 DEF Bootstrap, kube
<1>8. ASSUME NEW n \in Node,
             \/ Deliver(n) \/ ReplacePod(n) \/ StartPod(n)
             \/ LoadDatabases(n) \/ FailPod(n) \/ Observe(n)
      PROVE  [Abstract!Next]_(Abstract!vars)
  <2>1. UNCHANGED <<spec, sts>>
    BY <1>8 DEF Deliver, ReplacePod, StartPod, LoadDatabases, FailPod, Observe, kube, world
  <2> QED BY <1>1, <2>1
<1> QED
  BY <1>2, <1>3, <1>4, <1>5, <1>6, <1>7, <1>8 DEF Next, Operator, World

(* With fresh reads the upgrader, with everything that fails around it,    *)
(* implements the upgrade node by node.                                    *)
THEOREM ImplementsNodeByNode == MaxLag = 0 => (Spec => UpgradesNodeByNode)
<1> SUFFICES ASSUME MaxLag = 0 PROVE Spec => UpgradesNodeByNode
  OBVIOUS
<1>1. Init => TypeInv /\ FreshInv /\ Chosen
  BY TypeInit, InvInit DEF Init, Chosen, Loading, Gating
<1>2. TypeInv /\ FreshInv /\ Chosen /\ [Next]_vars => (TypeInv /\ FreshInv /\ Chosen)'
  BY TypeStep, InvStep, ChosenStep
<1>3. Init => Abstract!Init
  <2> SUFFICES ASSUME Init PROVE Abstract!Init
    OBVIOUS
  <2>1. \A n \in Node : ~Marked(sts[n]) /\ sts[n].image = 0
    BY DEF Init, Absent, Marked, NoImage
  <2>2. Active = 0
    BY <2>1, NoActiveNode DEF Active
  <2>3. [n \in Node |-> sts[n].image] = [n \in 1 .. N |-> 0]
    BY <2>1 DEF Node
  <2> QED BY <2>2, <2>3 DEF Init, Abstract!Init
<1>4. TypeInv /\ FreshInv /\ Chosen /\ [Next]_vars => [Abstract!Next]_(Abstract!vars)
  BY StepMaps
<1> QED
  BY <1>1, <1>2, <1>3, <1>4, PTL DEF Spec, UpgradesNodeByNode, Abstract!Spec

=============================================================================
