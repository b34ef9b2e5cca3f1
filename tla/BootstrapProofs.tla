-------------------------- MODULE BootstrapProofs --------------------------
(***************************************************************************)
(* Theorems about Bootstrap, for any number of nodes, any tags, any limits *)
(* and any number of troubles of every kind.                               *)
(***************************************************************************)
EXTENDS Bootstrap, TLAPS

(* The nodes before the one that is about to be joined are members.        *)
JoinedSoFar ==
    /\ pc = "join" => i \in Node \ {leader} /\ 1 .. (i - 1) \subseteq Members
    /\ pc = "topology" \/ job = "completed" => Members = Node

(* The index of a round is a round, that of a URL is a node.               *)
Counting == /\ pc = "pods" => i \in 1 .. MaxRetries
            /\ pc = "https" => i \in Node

Inv == TypeOK /\ JoinedSoFar /\ Counting

-----------------------------------------------------------------------------
(* There is a first node, and the leader is it.                            *)
LEMMA NodeFacts == N \in Nat \ {0} /\ leader \in Node /\ Node \subseteq Int
BY TagsAssumption DEF N, Node, leader

(* Trouble stays within its bound.                                         *)
LEMMA HitType ==
    ASSUME TypeOK, NEW kind, Hit(kind)
    PROVE  trouble' \in 0 .. MaxTrouble
BY TroubleAssumption DEF TypeOK, Hit

(* A join adds its node to the members.                                    *)
LEMMA JoinedMembers ==
    ASSUME TypeOK, NEW n \in Node \ {leader}, Joined(n)
    PROVE  /\ Members' = Members \cup {n}
           /\ \A m \in topology' : m.node \in Node \ {leader}
<1>1. Member(n, tag_from_url(n)).node = n
  BY DEF Member
<1>2. topology' = topology \cup {Member(n, tag_from_url(n))}
  BY DEF Joined
<1> HIDE DEF Member
<1>3. Members' = Members \cup {n}
  BY <1>1, <1>2 DEF Members
<1>4. \A m \in topology' : m.node \in Node \ {leader}
  BY <1>1, <1>2 DEF TypeOK
<1> QED BY <1>3, <1>4

(* A failed attempt keeps the invariant, also one whose last join was      *)
(* carried out: what it leaves behind is what an earlier step had shown.   *)
LEMMA ExitStep ==
    ASSUME Inv, Exit, UNCHANGED <<cluster, given>>,
           trusted' \in BOOLEAN, trouble' \in 0 .. MaxTrouble,
           topology' = topology \/ (pc = "join" /\ Joined(i))
    PROVE  Inv'
<1> USE DEF Inv
<1>1. /\ restarts' \in 0 .. BackoffLimit
      /\ pc' \in {"start", "ended"} /\ i' = 0
      /\ job' \in {job, "failed"}
  BY LimitsAssumption DEF Exit, TypeOK
<1>2. UNCHANGED <<created, pod, serving, fronted, named, rejoin>>
  BY DEF cluster, given
<1>3. /\ Members \subseteq Members' /\ Members' \subseteq Node
      /\ \A m \in topology' : m.node \in Node \ {leader}
  <2>1. CASE topology' = topology
    <3>1. Members' = Members
      BY <2>1 DEF Members
    <3>2. Members \subseteq Node
      BY NodeFacts DEF Members, TypeOK
    <3> QED BY <2>1, <3>1, <3>2 DEF TypeOK
  <2>2. CASE pc = "join" /\ Joined(i)
    <3>1. Members \subseteq Node
      BY NodeFacts DEF Members, TypeOK
    <3> QED BY <2>2, <3>1, JoinedMembers DEF JoinedSoFar
  <2> QED BY <2>1, <2>2
<1>4. TypeOK'
  BY <1>1, <1>2, <1>3, NodeFacts, LimitsAssumption DEF TypeOK, Steps
<1>5. Counting'
  BY <1>1 DEF Counting
<1>6. JoinedSoFar'
  BY <1>1, <1>3 DEF JoinedSoFar
<1> QED BY <1>4, <1>5, <1>6

(* Moving on in the script keeps the invariant if what the next step may   *)
(* rely on has been seen to.                                               *)
LEMMA AdvanceStep ==
    ASSUME Inv, NEW step \in Steps, NEW index \in 0 .. MaxRetries + N,
           To(step, index), UNCHANGED <<cluster, given>>,
           trusted' \in BOOLEAN, trouble' \in 0 .. MaxTrouble,
           \A m \in topology' : m.node \in Node \ {leader},
           JoinedSoFar', Counting'
    PROVE  Inv'
BY DEF Inv, TypeOK, To, cluster, given

-----------------------------------------------------------------------------
(* The steps of the scripts. *)

(* The rounds of waiting for the pods are counted.                         *)
LEMMA DiscoverStep ==
    ASSUME Inv, InstallKubectl \/ wait_for_ravendb_pods
    PROVE  Inv'
<1> USE DEF Inv
<1>1. /\ UNCHANGED <<cluster, given, trusted, topology>>
      /\ trouble' \in 0 .. MaxTrouble /\ trusted' \in BOOLEAN
      /\ Members' = Members
  BY HitType DEF InstallKubectl, wait_for_ravendb_pods, server, TypeOK, Members
<1>2. CASE Exit
  BY <1>1, <1>2, ExitStep
<1>3. CASE To("pods", 1) \/ (pc = "pods" /\ i < MaxRetries /\ To("pods", i + 1))
  <2>1. PICK index \in 1 .. MaxRetries : To("pods", index)
    BY <1>3, LimitsAssumption DEF Counting
  <2>2. index \in 0 .. MaxRetries + N
    BY NodeFacts, LimitsAssumption
  <2>3. JoinedSoFar' /\ Counting'
    BY <1>1, <2>1 DEF To, JoinedSoFar, Counting
  <2> QED BY <1>1, <2>1, <2>2, <2>3, AdvanceStep DEF TypeOK, Steps
<1>4. CASE To("https", 1)
  <2>1. 1 \in Node /\ 1 \in 0 .. MaxRetries + N
    BY NodeFacts, LimitsAssumption DEF Node
  <2>2. JoinedSoFar' /\ Counting'
    BY <1>1, <1>4, <2>1 DEF To, JoinedSoFar, Counting
  <2> QED BY <1>1, <1>4, <2>1, <2>2, AdvanceStep DEF TypeOK, Steps
<1> QED BY <1>2, <1>3, <1>4 DEF InstallKubectl, wait_for_ravendb_pods

(* The URLs are looked at one after the other.                             *)
LEMMA HttpsStep ==
    ASSUME Inv, check_https_reachability
    PROVE  Inv'
<1> USE DEF Inv
<1>1. /\ UNCHANGED <<cluster, given, trusted, topology>>
      /\ trouble' \in 0 .. MaxTrouble /\ trusted' \in BOOLEAN
      /\ Members' = Members
      /\ pc = "https" /\ i \in Node
  BY HitType DEF check_https_reachability, server, TypeOK, Members, Counting
<1>2. CASE Exit
  BY <1>1, <1>2, ExitStep
<1>3. CASE i < N /\ To("https", i + 1)
  <2>1. i + 1 \in Node /\ i + 1 \in 0 .. MaxRetries + N
    BY <1>1, <1>3, NodeFacts, LimitsAssumption DEF Node
  <2>2. JoinedSoFar' /\ Counting'
    BY <1>1, <1>3, <2>1 DEF To, JoinedSoFar, Counting
  <2> QED BY <1>1, <1>3, <2>1, <2>2, AdvanceStep DEF TypeOK, Steps
<1>4. CASE To("certs", 0)
  <2>1. JoinedSoFar' /\ Counting'
    BY <1>1, <1>4 DEF To, JoinedSoFar, Counting
  <2>2. 0 \in 0 .. MaxRetries + N
    BY NodeFacts, LimitsAssumption
  <2> QED BY <1>1, <1>4, <2>1, <2>2, AdvanceStep DEF TypeOK, Steps
<1> QED BY <1>2, <1>3, <1>4 DEF check_https_reachability

(* Registering the certificate leads to the first node after the leader,   *)
(* with no one before it left out.                                         *)
LEMMA RegisterStep ==
    ASSUME Inv, convert_pfx_to_pem_and_key \/ register_admin_cert
    PROVE  Inv'
<1> USE DEF Inv
<1>1. /\ UNCHANGED <<cluster, given, topology>>
      /\ trouble' \in 0 .. MaxTrouble /\ trusted' \in BOOLEAN
      /\ Members' = Members
  BY HitType DEF convert_pfx_to_pem_and_key, register_admin_cert, server, TypeOK,
                 Members
<1>2. CASE Exit
  BY <1>1, <1>2, ExitStep
<1>3. 0 \in 0 .. MaxRetries + N
  BY NodeFacts, LimitsAssumption
<1>4. CASE To("register", 0)
  <2>1. JoinedSoFar' /\ Counting'
    BY <1>1, <1>4 DEF To, JoinedSoFar, Counting
  <2> QED BY <1>1, <1>3, <1>4, <2>1, AdvanceStep DEF TypeOK, Steps
<1>5. CASE N = 1 /\ To("topology", 0)
  <2>1. Members \subseteq Node /\ Node = {leader}
    BY <1>5, NodeFacts DEF Members, TypeOK, Node, leader
  <2>2. Members = Node
    BY <2>1 DEF Members
  <2>3. JoinedSoFar' /\ Counting'
    BY <1>1, <1>5, <2>2 DEF To, JoinedSoFar, Counting
  <2> QED BY <1>1, <1>3, <1>5, <2>3, AdvanceStep DEF TypeOK, Steps
<1>6. CASE N # 1 /\ To("join", 2)
  <2>1. 2 \in Node \ {leader} /\ 2 \in 0 .. MaxRetries + N
    BY <1>6, NodeFacts, LimitsAssumption DEF Node, leader
  <2>2. 1 .. (2 - 1) \subseteq Members
    BY DEF Members, leader
  <2>3. JoinedSoFar' /\ Counting'
    BY <1>1, <1>6, <2>1, <2>2 DEF To, JoinedSoFar, Counting
  <2> QED BY <1>1, <1>6, <2>1, <2>3, AdvanceStep DEF TypeOK, Steps
<1> QED
  BY <1>2, <1>4, <1>5, <1>6
     DEF convert_pfx_to_pem_and_key, register_admin_cert, AfterRegister

(* A join that is answered, as new or as known, adds the node, and the     *)
(* next index has all nodes before it joined.                              *)
LEMMA JoinStep ==
    ASSUME Inv, join_node_to_cluster
    PROVE  Inv'
<1> USE DEF Inv
<1>1. /\ UNCHANGED <<cluster, given, trusted>>
      /\ trouble' \in 0 .. MaxTrouble /\ trusted' \in BOOLEAN
      /\ pc = "join" /\ i \in Node \ {leader}
  BY HitType DEF join_node_to_cluster, TypeOK, JoinedSoFar
<1>2. CASE Exit /\ (topology' = topology \/ Joined(i))
  BY <1>1, <1>2, ExitStep
<1>3. ASSUME Joined(i)
      PROVE  /\ 1 .. i \subseteq Members' /\ Members' \subseteq Node
             /\ Members \subseteq Members'
             /\ \A m \in topology' : m.node \in Node \ {leader}
  <2>1. 1 .. i \subseteq (1 .. (i - 1)) \cup {i}
    BY <1>1, NodeFacts
  <2>2. Members \subseteq Node
    BY NodeFacts DEF Members, TypeOK
  <2> QED BY <1>1, <1>3, <2>1, <2>2, JoinedMembers DEF JoinedSoFar
<1>4. CASE Joined(i) /\ i < N /\ To("join", i + 1)
  <2>1. /\ i + 1 \in Node \ {leader} /\ i + 1 \in 0 .. MaxRetries + N
        /\ (i + 1) - 1 = i
    BY <1>1, <1>4, NodeFacts, LimitsAssumption DEF Node, leader
  <2>2. JoinedSoFar' /\ Counting'
    BY <1>1, <1>3, <1>4, <2>1 DEF To, JoinedSoFar, Counting
  <2> QED BY <1>1, <1>3, <1>4, <2>1, <2>2, AdvanceStep DEF TypeOK, Steps
<1>5. CASE Joined(i) /\ i = N /\ To("topology", 0)
  <2>1. Members' = Node
    BY <1>3, <1>5 DEF Node
  <2>2. JoinedSoFar' /\ Counting'
    BY <1>1, <1>5, <2>1 DEF To, JoinedSoFar, Counting
  <2>3. 0 \in 0 .. MaxRetries + N
    BY NodeFacts, LimitsAssumption
  <2> QED BY <1>1, <1>3, <1>5, <2>2, <2>3, AdvanceStep DEF TypeOK, Steps
<1>6. i < N \/ i = N
  BY <1>1, NodeFacts DEF Node
<1> QED BY <1>2, <1>4, <1>5, <1>6 DEF join_node_to_cluster, AfterJoin

(* The Job completes only from the step behind the last join.              *)
LEMMA EndStep ==
    ASSUME Inv, print_topology \/ GiveUp
    PROVE  Inv'
<1> USE DEF Inv
<1>1. /\ UNCHANGED <<cluster, given, trusted, topology>>
      /\ trouble' \in 0 .. MaxTrouble /\ trusted' \in BOOLEAN
      /\ Members' = Members
  BY HitType DEF print_topology, GiveUp, server, TypeOK, Members
<1>2. CASE Exit
  BY <1>1, <1>2, ExitStep
<1>3. CASE \/ pc = "topology" /\ pc' = "ended" /\ job' = "completed"
                /\ UNCHANGED <<restarts, i>>
           \/ GiveUp
  <2>1. /\ pc' = "ended" /\ i' \in {i, 0} /\ UNCHANGED restarts
        /\ job' = "failed" \/ (job' = "completed" /\ Members = Node)
    BY <1>3 DEF GiveUp, JoinedSoFar
  <2>2. 0 \in 0 .. MaxRetries + N
    BY NodeFacts, LimitsAssumption
  <2>3. TypeOK'
    BY <1>1, <2>1, <2>2 DEF TypeOK, Steps, cluster, given
  <2> QED
    BY <1>1, <2>1, <2>3 DEF JoinedSoFar, Counting
<1> QED BY <1>2, <1>3 DEF print_topology

(* A request that hangs may have joined its node, and breaks like one that *)
(* fails.                                                                  *)
LEMMA HangStep ==
    ASSUME Inv, Hang \/ Break
    PROVE  Inv'
<1> USE DEF Inv
<1>1. CASE Hang
  <2>1. /\ UNCHANGED <<cluster, given>> /\ To("hanging", 0)
        /\ trouble' \in 0 .. MaxTrouble /\ trusted' \in BOOLEAN
        /\ topology' = topology \/ (pc = "join" /\ Joined(i))
        /\ job' = job
    BY <1>1, HitType DEF Hang, server, TypeOK, To
  <2>2. Members \subseteq Node
    BY NodeFacts DEF Members, TypeOK
  <2>3. /\ Members \subseteq Members' /\ Members' \subseteq Node
        /\ \A m \in topology' : m.node \in Node \ {leader}
    <3>1. CASE topology' = topology
      BY <2>2, <3>1 DEF Members, TypeOK
    <3>2. CASE pc = "join" /\ Joined(i)
      BY <2>2, <3>2, JoinedMembers DEF JoinedSoFar
    <3> QED BY <2>1, <3>1, <3>2
  <2>4. JoinedSoFar' /\ Counting'
    BY <2>1, <2>3 DEF To, JoinedSoFar, Counting
  <2>5. 0 \in 0 .. MaxRetries + N
    BY NodeFacts, LimitsAssumption
  <2> QED BY <2>1, <2>3, <2>4, <2>5, AdvanceStep DEF Steps
<1>2. CASE Break
  BY <1>2, ExitStep DEF Break, server, TypeOK
<1> QED BY <1>1, <1>2

(* What happens to pods and nodes does not undo a join.                    *)
LEMMA WorldStep ==
    ASSUME Inv, World
    PROVE  Inv'
<1> USE DEF Inv
<1>1. /\ UNCHANGED <<trusted, topology, fronted, named, rejoin, job, restarts, pc, i>>
      /\ Members' = Members
  BY DEF World, CreateNode, SchedulePod, RunPod, Serve, LosePod, FailNode, server,
         given, Members
<1>2. /\ created' \in 0 .. N
      /\ pod' \in [Node -> {"none", "Pending", "Running"}]
      /\ serving' \subseteq Node
  <2>1. CASE CreateNode
    BY <2>1, NodeFacts DEF CreateNode, TypeOK
  <2>2. ASSUME NEW n \in Node,
               SchedulePod(n) \/ RunPod(n) \/ Serve(n) \/ LosePod(n) \/ FailNode(n)
        PROVE  /\ created' = created
               /\ serving' \in {serving, serving \cup {n}, serving \ {n}}
               /\ \/ pod' = pod
                  \/ \E p \in {"none", "Pending", "Running"} :
                        pod' = [pod EXCEPT ![n] = p]
    BY <2>2 DEF SchedulePod, RunPod, Serve, LosePod, FailNode
  <2>3. CASE ~CreateNode
    <3>1. PICK n \in Node :
             SchedulePod(n) \/ RunPod(n) \/ Serve(n) \/ LosePod(n) \/ FailNode(n)
      BY <2>3 DEF World
    <3> QED BY <2>2, <3>1 DEF TypeOK
  <2> QED BY <2>1, <2>3
<1>3. trouble' \in 0 .. MaxTrouble
  BY HitType DEF World, CreateNode, SchedulePod, RunPod, Serve, LosePod, FailNode,
                 TypeOK
<1>4. TypeOK'
  BY <1>1, <1>2, <1>3 DEF TypeOK
<1>5. JoinedSoFar' /\ Counting'
  BY <1>1 DEF JoinedSoFar, Counting
<1> QED BY <1>4, <1>5

(* The invariant is inductive.                                             *)
LEMMA InvStep ==
    ASSUME Inv, [Next]_vars
    PROVE  Inv'
<1>1. CASE UNCHANGED vars
  BY <1>1
     DEF vars, Inv, TypeOK, JoinedSoFar, Counting, Members
<1> QED
  BY <1>1, DiscoverStep, HttpsStep, RegisterStep, JoinStep, EndStep, HangStep,
     WorldStep DEF Next, Script

(* It holds before any node exists.                                        *)
LEMMA InvInit == Init => Inv
<1> SUFFICES ASSUME Init PROVE Inv
  OBVIOUS
<1>1. TypeOK
  <2>1. /\ created \in 0 .. N /\ restarts \in 0 .. BackoffLimit
        /\ i \in 0 .. MaxRetries + N /\ trouble \in 0 .. MaxTrouble
    BY NodeFacts, LimitsAssumption, TroubleAssumption DEF Init
  <2> QED BY <2>1 DEF Init, TypeOK, Steps
<1>2. JoinedSoFar /\ Counting
  BY DEF Init, JoinedSoFar, Counting
<1> QED BY <1>1, <1>2 DEF Inv

-----------------------------------------------------------------------------
(* What the check of the URLs guarantees where no proxy answers. *)

(* A node that has a pod or answers exists; nodes are created in order.    *)
PodsInOrder ==
    \A n \in Node : pod[n] # "none" \/ n \in serving => n <= created

(* The nodes whose URLs have been looked at exist, and behind the check so *)
(* do all of them, for good.                                               *)
Checked ==
    ~fronted =>
       /\ pc = "https" => i - 1 <= created
       /\ pc \in {"certs", "register", "join", "topology"} => created = N
       /\ topology # {} => created = N

CheckInv == Inv /\ PodsInOrder /\ Checked

(* Steps that leave the nodes alone: only the check of a URL has to show   *)
(* something, and a join comes only behind it.                             *)
LEMMA CheckedScript ==
    ASSUME CheckInv, Script \/ Hang \/ Break \/ GiveUp
    PROVE  PodsInOrder' /\ Checked'
<1> USE DEF CheckInv
<1>1. UNCHANGED <<created, pod, serving, fronted>>
  BY DEF Script, Hang, Break, GiveUp, InstallKubectl, wait_for_ravendb_pods,
         check_https_reachability, convert_pfx_to_pem_and_key,
         register_admin_cert, join_node_to_cluster, print_topology,
         cluster, given
<1>2. PodsInOrder'
  BY <1>1 DEF PodsInOrder
<1>3. created \in 0 .. N /\ N \in Nat
  BY NodeFacts DEF Inv, TypeOK
<1>4. topology' = topology \/ pc = "join"
  BY DEF Script, Hang, Break, GiveUp, InstallKubectl, wait_for_ravendb_pods,
         check_https_reachability, convert_pfx_to_pem_and_key,
         register_admin_cert, join_node_to_cluster, print_topology, server
<1>5. ASSUME ~fronted, check_https_reachability
      PROVE  /\ pc' = "https" => i' - 1 <= created
             /\ pc' \in {"certs", "register", "join", "topology"} => created = N
  <2>1. i \in Node
    BY <1>5 DEF check_https_reachability, Inv, Counting
  <2>2. CASE i \in serving
    <3>1. i <= created
      BY <2>1, <2>2 DEF PodsInOrder
    <3> QED
      BY <1>3, <1>5, <2>1, <3>1, NodeFacts
         DEF check_https_reachability, To, Exit
  <2>3. CASE i \notin serving
    BY <1>5, <2>3 DEF check_https_reachability, Redirects, Exit
  <2> QED BY <2>2, <2>3
<1>6. ASSUME ~fronted, ~check_https_reachability
      PROVE  /\ pc' = "https" => i' - 1 <= created
             /\ pc' \in {"certs", "register", "join", "topology"} => created = N
  BY <1>3, <1>6
     DEF Checked, Script, Hang, Break, GiveUp, InstallKubectl,
         wait_for_ravendb_pods, convert_pfx_to_pem_and_key, register_admin_cert,
         AfterRegister, join_node_to_cluster, AfterJoin, print_topology, To, Exit
<1> QED BY <1>1, <1>2, <1>4, <1>5, <1>6 DEF Checked

(* Nodes are only ever added.                                              *)
LEMMA CheckedWorld ==
    ASSUME CheckInv, World
    PROVE  PodsInOrder' /\ Checked'
<1> USE DEF CheckInv
<1>1. UNCHANGED <<topology, fronted, pc, i>>
  BY DEF World, CreateNode, SchedulePod, RunPod, Serve, LosePod, FailNode, server,
         given
<1>2. created \in 0 .. N /\ N \in Nat /\ Node \subseteq Int
  BY NodeFacts DEF Inv, TypeOK
<1>3. CASE CreateNode
  <2>1. created' = created + 1 /\ created < N /\ UNCHANGED <<pod, serving>>
    BY <1>3 DEF CreateNode
  <2>2. PodsInOrder'
    BY <1>2, <2>1 DEF PodsInOrder
  <2>3. pc = "https" => i \in Int
    BY <1>2 DEF Inv, Counting
  <2> QED BY <1>1, <1>2, <2>1, <2>2, <2>3 DEF Checked
<1>4. ASSUME NEW n \in Node,
             SchedulePod(n) \/ RunPod(n) \/ Serve(n) \/ LosePod(n) \/ FailNode(n)
      PROVE  PodsInOrder' /\ Checked'
  <2>1. created' = created
    BY <1>4 DEF SchedulePod, RunPod, Serve, LosePod, FailNode
  <2>2. pod \in [Node -> {"none", "Pending", "Running"}]
    BY DEF Inv, TypeOK
  <2>3. PodsInOrder'
    <3>1. CASE SchedulePod(n)
      BY <2>1, <2>2, <3>1 DEF SchedulePod, PodsInOrder
    <3>2. CASE RunPod(n)
      BY <2>1, <2>2, <3>2 DEF RunPod, PodsInOrder
    <3>3. CASE Serve(n)
      BY <2>1, <2>2, <3>3 DEF Serve, PodsInOrder
    <3>4. CASE LosePod(n)
      BY <2>1, <2>2, <3>4 DEF LosePod, PodsInOrder
    <3>5. CASE FailNode(n)
      BY <2>1, <2>2, <3>5 DEF FailNode, PodsInOrder
    <3> QED BY <1>4, <3>1, <3>2, <3>3, <3>4, <3>5
  <2> QED BY <1>1, <2>1, <2>3 DEF Checked
<1> QED BY <1>3, <1>4 DEF World

-----------------------------------------------------------------------------
(* The theorems. *)

(* The state of the Job, of the script and of the cluster it forms has the *)
(* expected types; in particular a restart never exceeds the limit.        *)
THEOREM TypeCorrect == Spec => []TypeOK
<1>1. Inv /\ [Next]_vars => Inv'
  BY InvStep
<1> QED BY InvInit, <1>1, PTL DEF Spec, Inv

(* A completed Job has joined every node of the spec, whatever failed, was *)
(* lost or hung in this attempt or an earlier one.                         *)
THEOREM CompletedIsFormed == Spec => []CompletedMeansFormed
<1>1. Inv /\ [Next]_vars => Inv'
  BY InvStep
<1>2. Inv => CompletedMeansFormed
  BY DEF Inv, JoinedSoFar, CompletedMeansFormed
<1> QED BY InvInit, <1>1, <1>2, PTL DEF Spec

(* Where no proxy answers for a missing node, no node is joined before all *)
(* nodes of the spec exist, although the wait for the pods can be passed   *)
(* without them.                                                           *)
THEOREM NoEarlyJoin == Spec => []JoinsWaitForAll
<1>1. Init => CheckInv
  <2>1. Init => PodsInOrder /\ Checked
    BY DEF Init, PodsInOrder, Checked
  <2> QED BY <2>1, InvInit DEF CheckInv
<1>2. CheckInv /\ [Next]_vars => CheckInv'
  <2> SUFFICES ASSUME CheckInv, [Next]_vars PROVE CheckInv'
    OBVIOUS
  <2>1. Inv'
    BY InvStep DEF CheckInv
  <2>2. CASE UNCHANGED vars
    BY <2>1, <2>2 DEF vars, CheckInv, PodsInOrder, Checked
  <2>3. CASE Next
    BY <2>1, <2>3, CheckedScript, CheckedWorld DEF CheckInv, Next
  <2> QED BY <2>2, <2>3
<1>3. CheckInv => JoinsWaitForAll
  BY DEF CheckInv, Checked, JoinsWaitForAll
<1> QED BY <1>1, <1>2, <1>3, PTL DEF Spec

=============================================================================
