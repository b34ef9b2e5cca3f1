------------------------------- MODULE Gates -------------------------------
(***************************************************************************)
(* The gates before and after the upgrade of one node with their clock:    *)
(* the retry loop of pkg/upgrade/wait.go, which runs one check after the   *)
(* other in the order of preNode and postNode, and what the checks ask of  *)
(* RavenDB. RollingUpgrade has each gate as one step; here it is the loop  *)
(* of requests, events, sleeps and the test of the deadline.               *)
(*                                                                         *)
(* A check is answered from the state of the nodes, except that of the     *)
(* databases: the first node reports what its cluster observer has last    *)
(* seen (`reported'). Requests take time, may fail for reasons of the      *)
(* network and, as the HTTP client has no timeout, may hang for ever. The  *)
(* context is cancelled when the operator shuts down.                      *)
(*                                                                         *)
(* Time is counted in units of the sleeps. What takes time is requests,    *)
(* sleeps, the grace period and the pause that follows each event.         *)
(***************************************************************************)
EXTENDS Integers

CONSTANTS
    N,                 \* number of nodes in spec.nodes
    Databases,         \* enabled databases, each the set of its nodes
    PreMaxWait,        \* DefaultTiming
    PostMaxWait,
    PingInterval,
    DBInterval,
    GraceAfterReady,
    MaxSleep,          \* cap of the back-off
    EmitDelay,         \* the pause after each event that is emitted
    Durations,         \* values of the timing annotations, 0 for none
    MaxRequest,        \* longest time a request takes that does not hang
    ReportLag,         \* longest time between two looks of the observer
    MaxChanges         \* how often nodes change their state in a behaviour

ASSUME NAssumption == N \in Nat \ {0}
ASSUME DatabasesAssumption == Databases \subseteq SUBSET (1 .. N)
ASSUME TimingAssumption ==
    /\ PreMaxWait \in Nat \ {0} /\ PostMaxWait \in Nat \ {0}
    /\ PingInterval \in Nat \ {0} /\ DBInterval \in Nat \ {0}
    /\ GraceAfterReady \in Nat \ {0} /\ MaxSleep \in Nat \ {0}
    /\ EmitDelay \in 0 .. MaxSleep
    /\ Durations \subseteq Int
ASSUME WorldAssumption ==
    MaxRequest \in Nat /\ ReportLag \in Nat /\ MaxChanges \in Nat

Node == 1 .. N
NoNode == 0
Phase == {"pre", "post"}
Kind == {"alive", "conn", "db"}
NodeState == {"down", "loading", "broken", "ok"}

VARIABLES
    timing,      \* the timing of this run
    sel,         \* the node that is upgraded
    phase,       \* before or after the node is applied
    kind,        \* the gate that is waited for
    pc,          \* where the loop is
    timer,       \* time left of a request, a pause, a sleep or the grace
    elapsed,     \* time since the gate was started
    hung,        \* has a request of this gate hung?
    sleep,       \* the next sleep
    answer,      \* what the check found
    cancelled,   \* has the context been cancelled?
    overtime,    \* time since then
    state,       \* the state of each node
    reported,    \* the state as the observer last saw it
    unseen,      \* time since it looked
    lastOk,      \* time since each node was last ok
    changes      \* changes of the nodes so far

loop == <<phase, kind, pc, timer, elapsed, hung, sleep, answer>>
world == <<state, reported, unseen, lastOk, changes>>
vars == <<timing, sel, phase, kind, pc, timer, elapsed, hung, sleep, answer,
          cancelled, overtime, state, reported, unseen, lastOk, changes>>

Larger(a, b) == IF a > b THEN a ELSE b
Smaller(a, b) == IF a < b THEN a ELSE b

-----------------------------------------------------------------------------
(* Timing. *)

(* An annotation counts when it is a positive duration.                    *)
parse(v, def) == IF v > 0 THEN v ELSE def

(* The part of the timing that concerns phase p, from the values of its    *)
(* annotations for the maximal wait and the two intervals.                 *)
ReadTimingFromAnnotations(p, wait, ping, db) ==
    [maxWait |-> parse(wait, IF p = "pre" THEN PreMaxWait ELSE PostMaxWait),
     ping |-> parse(ping, PingInterval),
     db |-> parse(db, DBInterval)]

Timing == [maxWait : Nat \ {0}, ping : Nat \ {0}, db : Nat \ {0}]

Interval(k) == IF k = "db" THEN timing.db ELSE timing.ping

(* Mutation: the doubled sleep is not capped.                              *)
NextSleepUncapped(s) == s * 2

NextSleep(s) == Smaller(s * 2, MaxSleep)

LongestSleep(k) == Larger(Interval(k), MaxSleep)

-----------------------------------------------------------------------------
(* Checks, as RavenDB answers them when it gets the request. *)

NodeAlive(n) == state[n] # "down"

(* The first node pings every member of the cluster.                       *)
ClusterConnectivity == \A n \in Node : NodeAlive(n)

Replicated == {d \in Databases : \E m, n \in d : m # n}

(* Mutation: the node about to go down counts as well.                     *)
DatabasesOnlineAnywhere(excluded) ==
    /\ NodeAlive(1)
    /\ \A d \in Replicated :
          /\ \E n \in d : reported[n] = "ok"
          /\ \A n \in d \ {excluded} : reported[n] # "broken"

(* One reported hard load error fails the check whatever the other nodes   *)
(* say; one node that is ok excuses all other errors.                      *)
DatabasesOnline(excluded) ==
    /\ NodeAlive(1)
    /\ \A d \in Replicated :
          /\ \E n \in d \ {excluded} : reported[n] = "ok"
          /\ \A n \in d \ {excluded} : reported[n] # "broken"

Excluded == IF phase = "pre" THEN sel ELSE NoNode

Check ==
    CASE kind = "alive" -> NodeAlive(sel)
      [] kind = "conn"  -> ClusterConnectivity
      [] kind = "db"    -> DatabasesOnline(Excluded)

-----------------------------------------------------------------------------
LastOkBound == ReportLag + MaxRequest + EmitDelay + 1

Places == {"announcing", "head", "asking", "hanging", "answered", "passing",
           "blocking", "sleeping", "grace", "failing", "passed", "failed"}

TypeOK ==
    /\ timing \in Timing
    /\ sel \in Node
    /\ phase \in Phase
    /\ kind \in Kind
    /\ pc \in Places
    /\ timer \in Nat
    /\ elapsed \in Nat
    /\ hung \in BOOLEAN
    /\ sleep \in 1 .. LongestSleep(kind)
    /\ answer \in BOOLEAN
    /\ cancelled \in BOOLEAN
    /\ overtime \in Nat
    /\ state \in [Node -> NodeState]
    /\ reported \in [Node -> NodeState]
    /\ unseen \in 0 .. ReportLag
    /\ lastOk \in [Node -> 0 .. LastOkBound]
    /\ changes \in 0 .. MaxChanges

(* The pod of the node may just have been replaced.                        *)
Init ==
    /\ sel \in Node
    /\ phase \in Phase
    /\ \E wait, ping, db \in Durations :
          timing = ReadTimingFromAnnotations(phase, wait, ping, db)
    /\ kind = "alive"
    /\ pc = "announcing"
    /\ timer = EmitDelay
    /\ elapsed = 0
    /\ hung = FALSE
    /\ sleep = Interval("alive")
    /\ answer = FALSE
    /\ cancelled = FALSE
    /\ overtime = 0
    /\ \E s \in {"ok", "down"} :
          state = [n \in Node |-> IF n = sel THEN s ELSE "ok"]
    /\ reported = [n \in Node |-> "ok"]
    /\ unseen = 0
    /\ lastOk = [n \in Node |-> 0]
    /\ changes = 0

-----------------------------------------------------------------------------
(* The loop of wait. *)

Rest == <<timing, sel, phase, cancelled, overtime, world>>

(* An event is emitted, and with it a pause that nothing interrupts.       *)
Emit(place) == pc' = place /\ timer' = EmitDelay

(* The clock of the gate starts after its first event.                     *)
Announced ==
    /\ pc = "announcing"
    /\ timer = 0
    /\ pc' = "head"
    /\ UNCHANGED <<Rest, kind, timer, elapsed, hung, sleep, answer>>

(* The request goes out; a cancelled context ends the gate instead.        *)
Ask ==
    /\ pc = "head"
    /\ ~cancelled
    /\ pc' = "asking"
    /\ timer' = MaxRequest
    /\ UNCHANGED <<Rest, kind, elapsed, hung, sleep, answer>>

GiveUpCancelled ==
    /\ pc = "head"
    /\ cancelled
    /\ Emit("failing")
    /\ UNCHANGED <<Rest, kind, elapsed, hung, sleep, answer>>

(* RavenDB computes the answer, or there is none: an error of the network  *)
(* and an answer other than 2xx count as a check that is not ok.           *)
Serve ==
    /\ pc = "asking"
    /\ pc' = "answered"
    /\ answer' \in {FALSE, Check}
    /\ UNCHANGED <<Rest, kind, timer, elapsed, hung, sleep>>

(* The connection stands, and no answer ever comes.                        *)
Hang ==
    /\ pc = "asking"
    /\ pc' = "hanging"
    /\ hung' = TRUE
    /\ UNCHANGED <<Rest, kind, timer, elapsed, sleep, answer>>

(* Only a cancelled context ends such a request, with an error.            *)
Abort ==
    /\ pc = "hanging"
    /\ cancelled
    /\ pc' = "answered"
    /\ answer' = FALSE
    /\ UNCHANGED <<Rest, kind, timer, elapsed, hung, sleep>>

Pass ==
    /\ pc = "answered"
    /\ answer
    /\ answer' = FALSE
    /\ Emit("passing")
    /\ UNCHANGED <<Rest, kind, elapsed, hung, sleep>>

StartGate(k) ==
    /\ Emit("announcing")
    /\ kind' = k
    /\ elapsed' = 0
    /\ hung' = FALSE
    /\ sleep' = Interval(k)

(* A gate has passed: on to the next one, after the first one of postNode  *)
(* with a grace period before it.                                          *)
GoOn ==
    /\ pc = "passing"
    /\ timer = 0
    /\ \/ kind = "alive" /\ phase = "pre" /\ StartGate("conn")
       \/ /\ kind = "alive" /\ phase = "post"
          /\ pc' = "grace"
          /\ timer' = GraceAfterReady
          /\ UNCHANGED <<kind, elapsed, hung, sleep>>
       \/ kind = "conn" /\ StartGate("db")
       \/ /\ kind = "db"
          /\ pc' = "passed"
          /\ UNCHANGED <<kind, timer, elapsed, hung, sleep>>
    /\ UNCHANGED <<Rest, answer>>

Block ==
    /\ pc = "answered"
    /\ ~answer
    /\ Emit("blocking")
    /\ UNCHANGED <<Rest, kind, elapsed, hung, sleep, answer>>

(* The deadline is tested after the check and its event, and before the    *)
(* sleep, which is longer each time.                                       *)
Sleep ==
    /\ pc = "blocking"
    /\ timer = 0
    /\ elapsed < timing.maxWait
    /\ pc' = "sleeping"
    /\ timer' = sleep
    /\ sleep' = NextSleep(sleep)
    /\ UNCHANGED <<Rest, kind, elapsed, hung, answer>>

TimeOut ==
    /\ pc = "blocking"
    /\ timer = 0
    /\ elapsed >= timing.maxWait
    /\ Emit("failing")
    /\ UNCHANGED <<Rest, kind, elapsed, hung, sleep, answer>>

Fail ==
    /\ pc = "failing"
    /\ timer = 0
    /\ pc' = "failed"
    /\ UNCHANGED <<Rest, kind, timer, elapsed, hung, sleep, answer>>

(* Mutation: a sleep that a cancelled context has interrupted is lost.     *)
WakeUncancelled ==
    /\ pc = "sleeping"
    /\ ~cancelled
    /\ timer = 0
    /\ pc' = "head"
    /\ UNCHANGED <<Rest, kind, timer, elapsed, hung, sleep, answer>>

Wake ==
    /\ pc = "sleeping"
    /\ timer = 0
    /\ pc' = "head"
    /\ UNCHANGED <<Rest, kind, timer, elapsed, hung, sleep, answer>>

EndGrace ==
    /\ pc = "grace"
    /\ timer = 0
    /\ StartGate("conn")
    /\ UNCHANGED <<Rest, answer>>

GraceCancelled ==
    /\ pc = "grace"
    /\ cancelled
    /\ pc' = "failed"
    /\ timer' = 0
    /\ UNCHANGED <<Rest, kind, elapsed, hung, sleep, answer>>

-----------------------------------------------------------------------------
(* Around it. *)

Ended == pc \in {"passed", "failed"}

(* A cancelled context ends a request and the grace period at once: then   *)
(* only the pauses after events and a sleep go on.                         *)
Interrupted == cancelled /\ pc \in {"asking", "hanging", "answered", "grace"}

(* The time of a request that hangs is counted up to the deadline, beyond  *)
(* which more of it makes no difference.                                   *)
TimePasses ==
    IF pc = "hanging" THEN elapsed < timing.maxWait ELSE ~Ended /\ timer > 0

Tick ==
    /\ TimePasses
    /\ ~Interrupted
    /\ unseen < ReportLag
    /\ timer' = IF pc = "hanging" THEN timer ELSE timer - 1
    /\ elapsed' = IF pc \in {"announcing", "grace"} THEN elapsed ELSE elapsed + 1
    /\ overtime' = IF cancelled THEN overtime + 1 ELSE overtime
    /\ unseen' = unseen + 1
    /\ lastOk' = [n \in Node |->
                    IF state[n] = "ok" THEN 0
                    ELSE Smaller(lastOk[n] + 1, LastOkBound)]
    /\ UNCHANGED <<timing, sel, phase, kind, pc, hung, sleep, answer, cancelled,
                   state, reported, changes>>

Cancel ==
    /\ ~Ended
    /\ ~cancelled
    /\ cancelled' = TRUE
    /\ UNCHANGED <<timing, sel, loop, overtime, world>>

(* A node fails, is replaced, starts, or cannot load a database.           *)
Change ==
    /\ ~Ended
    /\ changes < MaxChanges
    /\ changes' = changes + 1
    /\ \E n \in Node, s \in NodeState :
          /\ s # state[n]
          /\ state' = [state EXCEPT ![n] = s]
          /\ lastOk' = IF s = "ok" THEN [lastOk EXCEPT ![n] = 0] ELSE lastOk
    /\ UNCHANGED <<timing, sel, loop, cancelled, overtime, reported, unseen>>

(* The observer of the RavenDB cluster looks at the nodes.                 *)
Observe ==
    /\ ~Ended
    /\ unseen > 0 \/ reported # state
    /\ reported' = state
    /\ unseen' = 0
    /\ UNCHANGED <<timing, sel, loop, cancelled, overtime, state, lastOk,
                   changes>>

Wait == Announced \/ Ask \/ GiveUpCancelled \/ Serve \/ Hang \/ Abort \/ Pass
           \/ GoOn \/ Block \/ Sleep \/ TimeOut \/ Fail \/ Wake \/ EndGrace
           \/ GraceCancelled

Next == Wait \/ Tick \/ Cancel \/ Change \/ Observe

Spec == Init /\ [][Next]_vars

(* Time goes on, the loop does its next step when there is one, and the    *)
(* observer looks. Nothing is assumed of a request that hangs.             *)
FairSpec == Spec /\ WF_vars(Wait) /\ WF_vars(Tick) /\ WF_vars(Observe)

-----------------------------------------------------------------------------
(* Properties *)

(* No gate is waited for longer than its maximal wait, one sleep, one      *)
(* request and the events of its end, unless a request of it hangs. The    *)
(* sleep is bounded by the back-off's cap or, since the cap applies only   *)
(* after the first sleep, by a longer interval (wait).                     *)
WaitBounded ==
    ~hung => elapsed <= timing.maxWait - 1 + LongestSleep(kind) + MaxRequest
                           + 2 * EmitDelay

(* A shutdown of the operator waits for one sleep and the pauses after two *)
(* events at most: requests, those that hang too, and the grace period end *)
(* with the context, while the time.Sleep of wait and of emit does not.    *)
CancelBounded == overtime <= LongestSleep(kind) + 2 * EmitDelay

(* When the gates of a phase have passed, every replicated database has    *)
(* had a node that served it, before the upgrade of a node other than that *)
(* one, no longer ago than one report, one request and the pause after the *)
(* event (DatabasesOnline, wait).                                          *)
PassMeansServing ==
    [][pc # "passed" /\ pc' = "passed" =>
          \A d \in Replicated :
             \E n \in d \ {Excluded} :
                lastOk[n] <= ReportLag + MaxRequest + EmitDelay]_vars

(* The gates of a phase come to an end whatever state the nodes are in,    *)
(* except that a request may hang until the operator is shut down, or for  *)
(* ever when it never is (wait, httpGET).                                  *)
PhaseEndsUnlessHung == <>Ended \/ <>[](pc = "hanging" /\ ~cancelled)

=============================================================================
