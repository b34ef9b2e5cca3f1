---------------------------- MODULE GatesProofs ----------------------------
(***************************************************************************)
(* Theorems about Gates, for any number of nodes, any placement of         *)
(* databases, any timing and any number of changes of the nodes.           *)
(***************************************************************************)
EXTENDS Gates, TLAPS

(* The longest a gate has been waited for when its loop asks again, and    *)
(* when the answer is there.                                               *)
Latest == timing.maxWait - 1 + LongestSleep(kind)
LatestAnswer == Latest + MaxRequest

(* A sleep starts before the deadline, a request after a sleep, an event   *)
(* after a request: the time still to pass is part of the budget of a gate *)
(* whose requests do not hang.                                             *)
Budget ==
    /\ pc = "announcing" => elapsed = 0
    /\ pc = "hanging" => hung
    /\ ~hung =>
          /\ pc \in {"head", "sleeping"} => elapsed + timer <= Latest
          /\ pc \in {"asking", "answered"} => elapsed + timer <= LatestAnswer
          /\ pc \in {"passing", "blocking"} =>
                elapsed + timer <= LatestAnswer + EmitDelay
          /\ pc = "failing" => elapsed + timer <= LatestAnswer + 2 * EmitDelay
          /\ elapsed <= LatestAnswer + 2 * EmitDelay

(* After the context is cancelled time passes only in the pauses after     *)
(* events and in a sleep, each of which is followed by one more event at   *)
(* most.                                                                   *)
Overtime ==
    /\ ~cancelled => overtime = 0
    /\ pc \in {"asking", "hanging", "answered"} => overtime = 0
    /\ pc \in {"passing", "blocking"} => overtime + timer <= EmitDelay
    /\ pc = "grace" => overtime <= EmitDelay
    /\ pc = "announcing" => overtime + timer <= 2 * EmitDelay
    /\ pc \in {"head", "sleeping"} =>
          overtime + timer <= LongestSleep(kind) + EmitDelay
    /\ pc = "failing" => overtime + timer <= LongestSleep(kind) + 2 * EmitDelay
    /\ overtime <= LongestSleep(kind) + 2 * EmitDelay

(* A node reported ok was so when the observer last looked.                *)
Reports ==
    \A n \in Node : /\ state[n] = "ok" => lastOk[n] = 0
                    /\ reported[n] = "ok" => lastOk[n] <= unseen

(* Every replicated database has a node, not the one that is upgraded, of  *)
(* which it was known to serve: the time since then, and what is left on   *)
(* the timer, do not exceed a bound.                                       *)
Vouched(bound) ==
    \A d \in Replicated : \E n \in d \ {Excluded} : lastOk[n] + timer <= bound

(* A positive answer of the database gate, on its way, is as old as the    *)
(* report it was made from and the time it has taken so far.               *)
Answered ==
    /\ pc = "head" => timer = 0
    /\ pc \in {"asking", "hanging", "answered"} => timer <= MaxRequest
    /\ pc = "answered" /\ answer /\ kind = "db" => Vouched(ReportLag + MaxRequest)
    /\ pc = "passing" /\ kind = "db" =>
          Vouched(ReportLag + MaxRequest + EmitDelay)

Inv == TypeOK /\ Budget /\ Overtime /\ Reports /\ Answered

-----------------------------------------------------------------------------
(* Lemmas about timing. *)

(* Sleeps are positive, and none is longer than the longest: neither the   *)
(* first one of a gate nor one that has been doubled and capped.           *)
LEMMA SleepFacts ==
    ASSUME timing \in Timing, NEW k \in Kind
    PROVE  /\ Interval(k) \in 1 .. LongestSleep(k)
           /\ LongestSleep(k) \in Nat \ {0}
           /\ \A s \in Nat \ {0} : NextSleep(s) \in 1 .. LongestSleep(k)
<1>1. Interval(k) \in Nat \ {0} /\ MaxSleep \in Nat \ {0}
  BY TimingAssumption DEF Interval, Timing, Kind
<1>2. LongestSleep(k) \in {Interval(k), MaxSleep}
      /\ LongestSleep(k) >= Interval(k) /\ LongestSleep(k) >= MaxSleep
  BY <1>1 DEF LongestSleep, Larger
<1>3. ASSUME NEW s \in Nat \ {0}
      PROVE  NextSleep(s) \in 1 .. MaxSleep
  BY <1>1 DEF NextSleep, Smaller
<1> QED BY <1>1, <1>2, <1>3

(* The numbers that the budgets are made of.                               *)
LEMMA Numbers ==
    ASSUME TypeOK
    PROVE  /\ timing.maxWait \in Nat \ {0}
           /\ MaxRequest \in Nat /\ ReportLag \in Nat /\ EmitDelay \in Nat
           /\ Latest = timing.maxWait - 1 + LongestSleep(kind)
           /\ LatestAnswer = Latest + MaxRequest
           /\ LongestSleep(kind) \in Nat
           /\ \A k \in Kind : LongestSleep(k) \in Nat /\ EmitDelay <= LongestSleep(k)
<1>1. timing.maxWait \in Nat \ {0} /\ kind \in Kind /\ timing \in Timing
  BY DEF TypeOK, Timing
<1>2. EmitDelay \in Nat /\ EmitDelay <= MaxSleep /\ MaxSleep \in Nat
  BY TimingAssumption
<1>3. \A k \in Kind : LongestSleep(k) \in Nat /\ MaxSleep <= LongestSleep(k)
  <2>1. \A k \in Kind : Interval(k) \in Nat
    BY <1>1 DEF Interval, Timing
  <2> QED BY <1>2, <2>1 DEF LongestSleep, Larger
<1> QED BY <1>1, <1>2, <1>3, WorldAssumption DEF Latest, LatestAnswer

(* Annotations and defaults give a timing.                                 *)
LEMMA TimingType ==
    ASSUME NEW p \in Phase, NEW w \in Durations, NEW x \in Durations,
           NEW y \in Durations
    PROVE  ReadTimingFromAnnotations(p, w, x, y) \in Timing
BY TimingAssumption DEF ReadTimingFromAnnotations, parse, Timing, Phase

-----------------------------------------------------------------------------
(* The steps of the loop. *)

(* The world's part of the invariant does not depend on the loop.          *)
LEMMA WorldKept ==
    ASSUME Inv, UNCHANGED <<state, reported, unseen, lastOk, changes>>
    PROVE  Reports'
BY DEF Inv, Reports

(* A step within a gate leaves its budgets as they are.                    *)
LEMMA SameGate ==
    ASSUME UNCHANGED <<timing, sel, phase, kind>>
    PROVE  /\ Latest' = Latest /\ LatestAnswer' = LatestAnswer
           /\ LongestSleep(kind)' = LongestSleep(kind)
           /\ Excluded' = Excluded
BY DEF Latest, LatestAnswer, LongestSleep, Interval, Excluded

(* The first event of a gate, a sleep, a request that goes out, hangs or   *)
(* is aborted, and the end of the gate: steps that vouch for nothing.      *)
LEMMA PlainStep ==
    ASSUME Inv,
           \/ Announced \/ Ask \/ GiveUpCancelled \/ Hang \/ Abort
           \/ Block \/ TimeOut \/ Fail \/ Wake \/ GraceCancelled
    PROVE  Inv'
<1> USE DEF Inv
<1>1. /\ UNCHANGED <<timing, sel, phase, kind, elapsed, sleep, cancelled,
                     overtime, state, reported, unseen, lastOk, changes>>
      /\ timer' \in {0, timer, MaxRequest, EmitDelay} /\ pc' \in Places
      /\ hung' \in {hung, TRUE} /\ answer' \in {answer, FALSE}
  BY DEF Announced, Ask, GiveUpCancelled, Hang, Abort, Block, TimeOut, Fail, Wake,
         GraceCancelled, Rest, Emit, world, Places
<1>2. /\ Latest' = Latest /\ LatestAnswer' = LatestAnswer
      /\ LongestSleep(kind)' = LongestSleep(kind)
  BY <1>1, SameGate
<1>3. TypeOK'
  <2>1. timer' \in Nat
    BY <1>1, Numbers DEF TypeOK
  <2> QED BY <1>1, <1>2, <2>1 DEF TypeOK
<1>4. /\ Latest \in Nat /\ LatestAnswer = Latest + MaxRequest /\ MaxRequest \in Nat
      /\ LongestSleep(kind) \in Nat /\ EmitDelay \in Nat
      /\ EmitDelay <= LongestSleep(kind)
      /\ elapsed \in Nat /\ timer \in Nat /\ overtime \in Nat
  BY Numbers DEF TypeOK
<1>5. CASE Announced \/ Wake
  <2>1. pc \in {"announcing", "sleeping"} /\ timer = 0 /\ UNCHANGED <<timer, hung>>
        /\ pc' = "head"
    BY <1>5 DEF Announced, Wake
  <2> QED BY <1>1, <1>2, <1>3, <1>4, <2>1, WorldKept DEF Budget, Overtime, Answered
<1>6. CASE Ask
  <2>1. pc = "head" /\ ~cancelled /\ timer' = MaxRequest /\ hung' = hung
        /\ pc' = "asking"
    BY <1>6 DEF Ask
  <2> QED BY <1>1, <1>2, <1>3, <1>4, <2>1, WorldKept DEF Budget, Overtime, Answered
<1>7. CASE GiveUpCancelled \/ TimeOut
  <2>1. pc \in {"head", "blocking"} /\ timer' = EmitDelay /\ hung' = hung
        /\ pc' = "failing"
    BY <1>7 DEF GiveUpCancelled, TimeOut, Emit
  <2> QED BY <1>1, <1>2, <1>3, <1>4, <2>1, WorldKept DEF Budget, Overtime, Answered
<1>8. CASE Hang
  <2>1. pc = "asking" /\ timer' = timer /\ hung' /\ pc' = "hanging"
    BY <1>8 DEF Hang
  <2> QED BY <1>1, <1>2, <1>3, <1>4, <2>1, WorldKept DEF Budget, Overtime, Answered
<1>9. CASE Abort
  <2>1. pc = "hanging" /\ hung' = hung /\ timer' = timer /\ ~answer' /\ pc' = "answered"
    BY <1>9 DEF Abort
  <2> QED BY <1>1, <1>2, <1>3, <1>4, <2>1, WorldKept DEF Budget, Overtime, Answered
<1>10. CASE Block
  <2>1. pc = "answered" /\ hung' = hung /\ timer' = EmitDelay /\ pc' = "blocking"
    BY <1>10 DEF Block, Emit
  <2> QED BY <1>1, <1>2, <1>3, <1>4, <2>1, WorldKept DEF Budget, Overtime, Answered
<1>11. CASE Fail \/ GraceCancelled
  <2>1. pc \in {"failing", "grace"} /\ hung' = hung /\ pc' = "failed"
    BY <1>11 DEF Fail, GraceCancelled
  <2> QED BY <1>1, <1>2, <1>3, <1>4, <2>1, WorldKept DEF Budget, Overtime, Answered
<1> QED BY <1>5, <1>6, <1>7, <1>8, <1>9, <1>10, <1>11

(* An answer of the database gate vouches for a node that the observer has *)
(* seen to be ok.                                                          *)
LEMMA ServeStep ==
    ASSUME Inv, Serve
    PROVE  Inv'
<1> USE DEF Inv
<1>1. /\ UNCHANGED <<timing, sel, phase, kind, timer, elapsed, hung, sleep,
                     cancelled, overtime, state, reported, unseen, lastOk, changes>>
      /\ pc = "asking" /\ pc' = "answered" /\ answer' \in {FALSE, Check}
  BY DEF Serve, Rest, world
<1>2. /\ Latest' = Latest /\ LatestAnswer' = LatestAnswer
      /\ LongestSleep(kind)' = LongestSleep(kind)
      /\ Excluded' = Excluded
  BY <1>1, SameGate
<1>3. Check \in BOOLEAN
  BY DEF Check, TypeOK, Kind, NodeAlive, ClusterConnectivity, DatabasesOnline
<1>4. TypeOK'
  BY <1>1, <1>2, <1>3 DEF TypeOK, Places
<1>5. Budget' /\ Overtime'
  BY <1>1, <1>2 DEF Budget, Overtime
<1>6. ASSUME answer', kind = "db", NEW d \in Replicated
      PROVE  \E n \in d \ {Excluded} : lastOk[n] + timer <= ReportLag + MaxRequest
  <2>1. DatabasesOnline(Excluded)
    BY <1>1, <1>6 DEF Check
  <2>2. PICK n \in d \ {Excluded} : reported[n] = "ok"
    BY <1>6, <2>1 DEF DatabasesOnline
  <2>3. n \in Node
    BY <1>6, DatabasesAssumption DEF Replicated, Node
  <2>4. lastOk[n] <= unseen /\ lastOk[n] \in Nat
    BY <2>2, <2>3, Numbers DEF Reports, TypeOK, LastOkBound
  <2>5. unseen \in Nat /\ unseen <= ReportLag /\ timer \in Nat /\ timer <= MaxRequest
    BY <1>1, WorldAssumption DEF TypeOK, Answered
  <2> QED BY <2>2, <2>4, <2>5, WorldAssumption
<1>7. Answered'
  BY <1>1, <1>2, <1>6 DEF Answered, Vouched
<1> QED BY <1>1, <1>4, <1>5, <1>7, WorldKept

(* The event of a gate that has passed adds its pause to the answer's age. *)
LEMMA PassStep ==
    ASSUME Inv, Pass
    PROVE  Inv'
<1> USE DEF Inv
<1>1. /\ UNCHANGED <<timing, sel, phase, kind, elapsed, hung, sleep, cancelled,
                     overtime, state, reported, unseen, lastOk, changes>>
      /\ pc = "answered" /\ answer /\ ~answer'
      /\ pc' = "passing" /\ timer' = EmitDelay
  BY DEF Pass, Rest, Emit, world
<1>2. /\ Latest' = Latest /\ LatestAnswer' = LatestAnswer
      /\ LongestSleep(kind)' = LongestSleep(kind)
      /\ Excluded' = Excluded
  BY <1>1, SameGate
<1>3. /\ Latest \in Nat /\ LatestAnswer = Latest + MaxRequest /\ MaxRequest \in Nat
      /\ LongestSleep(kind) \in Nat /\ EmitDelay \in Nat /\ ReportLag \in Nat
      /\ elapsed \in Nat /\ timer \in Nat /\ overtime \in Nat
  BY Numbers DEF TypeOK
<1>4. TypeOK'
  BY <1>1, <1>2, <1>3 DEF TypeOK, Places, Pass
<1>5. Budget' /\ Overtime'
  BY <1>1, <1>2, <1>3 DEF Budget, Overtime
<1>6. ASSUME kind = "db", NEW d \in Replicated
      PROVE  \E n \in d \ {Excluded} :
                lastOk[n] + EmitDelay <= ReportLag + MaxRequest + EmitDelay
  <2>1. PICK n \in d \ {Excluded} : lastOk[n] + timer <= ReportLag + MaxRequest
    BY <1>1, <1>6 DEF Answered, Vouched
  <2>2. n \in Node
    BY DatabasesAssumption DEF Replicated, Node
  <2>3. lastOk[n] \in Nat
    BY <1>3, <2>2 DEF TypeOK, LastOkBound
  <2> QED BY <1>3, <2>1, <2>3
<1>7. Answered'
  BY <1>1, <1>2, <1>6 DEF Answered, Vouched
<1> QED BY <1>1, <1>4, <1>5, <1>7, WorldKept

(* A gate that starts has its whole budget before it.                      *)
LEMMA StartStep ==
    ASSUME Inv, NEW k \in Kind, StartGate(k), overtime <= EmitDelay,
           answer' \in BOOLEAN, UNCHANGED <<timing, sel, phase, cancelled, overtime>>,
           UNCHANGED <<state, reported, unseen, lastOk, changes>>
    PROVE  Inv'
<1> USE DEF Inv
<1>1. /\ kind' = k /\ pc' = "announcing" /\ timer' = EmitDelay /\ elapsed' = 0
      /\ hung' = FALSE /\ sleep' = Interval(k)
  BY DEF StartGate, Emit
<1>2. /\ Interval(k) \in 1 .. LongestSleep(k) /\ LongestSleep(k) \in Nat \ {0}
      /\ timing.maxWait \in Nat \ {0} /\ overtime \in Nat
      /\ EmitDelay \in Nat /\ EmitDelay <= LongestSleep(k) /\ MaxRequest \in Nat
  BY SleepFacts, Numbers DEF TypeOK
<1>3. LongestSleep(kind)' = LongestSleep(k)
  BY <1>1 DEF LongestSleep, Interval
<1>4. LatestAnswer' = timing.maxWait - 1 + LongestSleep(k) + MaxRequest
  BY <1>1, <1>3 DEF LatestAnswer, Latest
<1>5. TypeOK'
  BY <1>1, <1>2, <1>3 DEF TypeOK, Places
<1>6. Budget'
  BY <1>1, <1>2, <1>4 DEF Budget
<1>7. Overtime'
  BY <1>1, <1>2, <1>3 DEF Overtime
<1>8. Answered'
  BY <1>1 DEF Answered
<1> QED BY <1>5, <1>6, <1>7, <1>8, WorldKept

(* A passed gate hands over to the next one with a new deadline, or ends   *)
(* the phase.                                                              *)
LEMMA GoOnStep ==
    ASSUME Inv, GoOn
    PROVE  Inv'
<1> USE DEF Inv
<1>1. /\ UNCHANGED <<timing, sel, phase, answer, cancelled, overtime>>
      /\ UNCHANGED <<state, reported, unseen, lastOk, changes>>
      /\ pc = "passing" /\ timer = 0
  BY DEF GoOn, Rest, world
<1>2. overtime <= EmitDelay /\ overtime \in Nat /\ answer' \in BOOLEAN
  BY <1>1, Numbers DEF Overtime, TypeOK
<1>3. CASE StartGate("conn") \/ StartGate("db")
  BY <1>1, <1>2, <1>3, StartStep DEF Kind
<1>4. CASE /\ pc' \in {"grace", "passed"} /\ timer' \in Nat
           /\ UNCHANGED <<kind, elapsed, hung, sleep>>
  <2>1. /\ Latest' = Latest /\ LatestAnswer' = LatestAnswer
        /\ LongestSleep(kind)' = LongestSleep(kind)
    BY <1>1, <1>4, SameGate
  <2>2. TypeOK'
    BY <1>1, <1>4, <2>1 DEF TypeOK, Places
  <2>3. Budget' /\ Overtime' /\ Answered'
    BY <1>1, <1>2, <1>4, <2>1 DEF Budget, Overtime, Answered
  <2> QED BY <1>1, <2>2, <2>3, WorldKept
<1>5. timer \in Nat /\ GraceAfterReady \in Nat
  BY TimingAssumption DEF TypeOK
<1> QED BY <1>3, <1>4, <1>5 DEF GoOn

(* A sleep begins before the deadline and is not longer than the longest.  *)
LEMMA SleepStep ==
    ASSUME Inv, Sleep
    PROVE  Inv'
<1> USE DEF Inv
<1>1. /\ UNCHANGED <<timing, sel, phase, kind, elapsed, hung, answer, cancelled,
                     overtime, state, reported, unseen, lastOk, changes>>
      /\ pc = "blocking" /\ timer = 0 /\ elapsed < timing.maxWait
      /\ pc' = "sleeping" /\ timer' = sleep /\ sleep' = NextSleep(sleep)
  BY DEF Sleep, Rest, world
<1>2. /\ Latest' = Latest /\ LatestAnswer' = LatestAnswer
      /\ LongestSleep(kind)' = LongestSleep(kind)
  BY <1>1, SameGate
<1>3. /\ LongestSleep(kind) \in Nat /\ sleep \in 1 .. LongestSleep(kind)
      /\ elapsed \in Nat /\ timing.maxWait \in Nat \ {0} /\ overtime \in Nat
      /\ EmitDelay \in Nat /\ overtime <= EmitDelay /\ MaxRequest \in Nat
  BY <1>1, Numbers DEF TypeOK, Overtime
<1>4. NextSleep(sleep) \in 1 .. LongestSleep(kind)
  BY <1>3, SleepFacts DEF TypeOK
<1>5. TypeOK'
  BY <1>1, <1>2, <1>3, <1>4 DEF TypeOK, Places
<1>6. Budget'
  BY <1>1, <1>2, <1>3 DEF Budget, Latest, LatestAnswer
<1>7. Overtime' /\ Answered'
  BY <1>1, <1>2, <1>3 DEF Overtime, Answered
<1> QED BY <1>1, <1>5, <1>6, <1>7, WorldKept

(* The grace period ends in a gate with a deadline of its own.             *)
LEMMA GraceStep ==
    ASSUME Inv, EndGrace
    PROVE  Inv'
<1>1. /\ UNCHANGED <<timing, sel, phase, answer, cancelled, overtime>>
      /\ UNCHANGED <<state, reported, unseen, lastOk, changes>>
      /\ StartGate("conn") /\ pc = "grace"
  BY DEF EndGrace, Rest, world
<1>2. overtime <= EmitDelay /\ answer' \in BOOLEAN
  BY <1>1 DEF Inv, Overtime, TypeOK
<1> QED BY <1>1, <1>2, StartStep DEF Kind

-----------------------------------------------------------------------------
(* Time and the world. *)

(* A tick takes from the time that is left what it adds to the clocks.     *)
LEMMA TickStep ==
    ASSUME Inv, Tick
    PROVE  Inv'
<1> USE DEF Inv
<1>1. /\ UNCHANGED <<timing, sel, phase, kind, pc, hung, sleep, answer, cancelled,
                     state, reported, changes>>
      /\ pc \in Places \ {"passed", "failed"} /\ timer \in Nat /\ timer' \in Nat
      /\ pc = "hanging" => timer' = timer
      /\ pc # "hanging" => timer > 0 /\ timer' = timer - 1
      /\ unseen < ReportLag /\ unseen' = unseen + 1
      /\ elapsed \in Nat
      /\ elapsed' = IF pc \in {"announcing", "grace"} THEN elapsed ELSE elapsed + 1
      /\ overtime \in Nat
      /\ overtime' = IF cancelled THEN overtime + 1 ELSE overtime
      /\ cancelled => pc \notin {"asking", "hanging", "answered", "grace"}
      /\ cancelled \in BOOLEAN
  BY DEF Tick, TimePasses, Ended, Interrupted, TypeOK
<1>2. /\ Latest' = Latest /\ LatestAnswer' = LatestAnswer
      /\ LongestSleep(kind)' = LongestSleep(kind)
      /\ Excluded' = Excluded
  BY <1>1, SameGate
<1>3. /\ Latest \in Nat /\ LatestAnswer = Latest + MaxRequest /\ MaxRequest \in Nat
      /\ LongestSleep(kind) \in Nat /\ EmitDelay \in Nat
      /\ EmitDelay <= LongestSleep(kind)
  BY Numbers DEF TypeOK
<1>4. unseen \in Nat /\ ReportLag \in Nat
  BY WorldAssumption DEF TypeOK
<1>5. \A n \in Node : /\ lastOk[n] \in 0 .. LastOkBound
                      /\ lastOk'[n] \in 0 .. LastOkBound
                      /\ lastOk'[n] <= lastOk[n] + 1
                      /\ state[n] = "ok" => lastOk'[n] = 0
  <2> SUFFICES ASSUME NEW n \in Node
               PROVE  /\ lastOk[n] \in 0 .. LastOkBound
                      /\ lastOk'[n] \in 0 .. LastOkBound
                      /\ lastOk'[n] <= lastOk[n] + 1
                      /\ state[n] = "ok" => lastOk'[n] = 0
    OBVIOUS
  <2>1. lastOk[n] \in 0 .. LastOkBound /\ LastOkBound \in Nat
    BY <1>3, <1>4 DEF TypeOK, LastOkBound
  <2>2. lastOk'[n] = IF state[n] = "ok" THEN 0
                     ELSE Smaller(lastOk[n] + 1, LastOkBound)
    BY DEF Tick
  <2> QED BY <2>1, <2>2 DEF Smaller
<1>6. TypeOK'
  <2>1. lastOk' \in [Node -> 0 .. LastOkBound]
    BY <1>5 DEF Tick
  <2>2. unseen' \in 0 .. ReportLag /\ timer' \in Nat /\ elapsed' \in Nat
        /\ overtime' \in Nat
    BY <1>1, <1>4
  <2> QED BY <1>1, <1>2, <2>1, <2>2 DEF TypeOK
<1>7. Budget' /\ Overtime'
  <2>1. CASE pc = "hanging"
    BY <1>1, <1>2, <1>3, <2>1 DEF Budget, Overtime
  <2>2. CASE pc # "hanging"
    <3>1. /\ timer' = timer - 1 /\ timer > 0
          /\ overtime' \in {overtime, overtime + 1}
          /\ pc \in {"asking", "answered", "grace"} => overtime' = overtime
          /\ ~cancelled => overtime' = overtime
      BY <1>1, <2>2
    <3>2. Overtime'
      BY <1>1, <1>2, <1>3, <2>2, <3>1 DEF Overtime, Places
    <3>3. Budget'
      BY <1>1, <1>2, <1>3, <2>2, <3>1 DEF Budget, Places
    <3> QED BY <3>2, <3>3
  <2> QED BY <2>1, <2>2
<1>8. Reports'
  BY <1>1, <1>4, <1>5 DEF Reports
<1>9. ASSUME NEW bound \in Nat, Vouched(bound), pc # "hanging"
       PROVE  Vouched(bound)'
  <2> SUFFICES ASSUME NEW d \in Replicated
               PROVE  \E n \in d \ {Excluded} : lastOk'[n] + timer' <= bound
    BY <1>2 DEF Vouched
  <2>1. PICK n \in d \ {Excluded} : lastOk[n] + timer <= bound
    BY <1>9 DEF Vouched
  <2>2. n \in Node
    BY DatabasesAssumption DEF Replicated, Node
  <2>3. lastOk[n] \in Int /\ lastOk'[n] \in Int /\ lastOk'[n] <= lastOk[n] + 1
    BY <1>3, <1>4, <1>5, <2>2 DEF LastOkBound
  <2> QED BY <1>1, <1>9, <2>1, <2>3
<1>10. Answered'
  <2>1. ReportLag + MaxRequest \in Nat /\ ReportLag + MaxRequest + EmitDelay \in Nat
    BY <1>3, <1>4
  <2> QED BY <1>1, <1>3, <1>9, <2>1 DEF Answered
<1> QED BY <1>6, <1>7, <1>8, <1>10

(* When the context is cancelled, the overtime starts.                     *)
LEMMA CancelStep ==
    ASSUME Inv, Cancel
    PROVE  Inv'
<1> USE DEF Inv
<1>1. /\ UNCHANGED <<timing, sel, phase, kind, pc, timer, elapsed, hung, sleep,
                     answer, overtime, state, reported, unseen, lastOk, changes>>
      /\ ~cancelled /\ cancelled' = TRUE
  BY DEF Cancel, loop, world
<1>2. /\ Latest' = Latest /\ LatestAnswer' = LatestAnswer
      /\ LongestSleep(kind)' = LongestSleep(kind)
      /\ Excluded' = Excluded
  BY <1>1, SameGate
<1>3. TypeOK'
  BY <1>1, <1>2 DEF TypeOK
<1>4. Budget' /\ Overtime'
  BY <1>1, <1>2 DEF Budget, Overtime
<1>5. Answered'
  BY <1>1, <1>2 DEF Answered, Vouched
<1> QED BY <1>1, <1>3, <1>4, <1>5, WorldKept

(* A node that stops being ok was so a moment ago.                         *)
LEMMA ChangeStep ==
    ASSUME Inv, Change \/ Observe
    PROVE  Inv'
<1> USE DEF Inv
<1>1. UNCHANGED <<timing, sel, phase, kind, pc, timer, elapsed, hung, sleep,
                  answer, cancelled, overtime>>
  BY DEF Change, Observe, loop
<1>2. /\ Latest' = Latest /\ LatestAnswer' = LatestAnswer
      /\ LongestSleep(kind)' = LongestSleep(kind)
      /\ Excluded' = Excluded
  BY <1>1, SameGate
<1>3. Budget' /\ Overtime'
  BY <1>1, <1>2 DEF Budget, Overtime
<1>4. /\ state' \in [Node -> NodeState] /\ reported' \in [Node -> NodeState]
      /\ unseen' \in 0 .. ReportLag /\ changes' \in 0 .. MaxChanges
      /\ lastOk' \in [Node -> 0 .. LastOkBound]
      /\ \A n \in Node : lastOk'[n] = lastOk[n] \/ lastOk'[n] = 0
      /\ Reports'
  <2>0. 0 \in 0 .. LastOkBound /\ 0 \in 0 .. ReportLag
    BY WorldAssumption, Numbers DEF LastOkBound
  <2>1. CASE Observe
    <3>1. UNCHANGED <<state, lastOk, changes>> /\ reported' = state /\ unseen' = 0
      BY <2>1 DEF Observe
    <3> QED BY <2>0, <3>1 DEF TypeOK, Reports
  <2>2. CASE Change
    <3>1. PICK n \in Node, s \in NodeState :
             /\ s # state[n]
             /\ state' = [state EXCEPT ![n] = s]
             /\ lastOk' = IF s = "ok" THEN [lastOk EXCEPT ![n] = 0] ELSE lastOk
      BY <2>2 DEF Change
    <3>2. UNCHANGED <<reported, unseen>> /\ changes' \in 0 .. MaxChanges
      BY <2>2, WorldAssumption DEF Change, TypeOK
    <3>3. /\ state' \in [Node -> NodeState]
          /\ \A m \in Node : state'[m] = IF m = n THEN s ELSE state[m]
      BY <3>1 DEF TypeOK
    <3>4. /\ lastOk' \in [Node -> 0 .. LastOkBound]
          /\ \A m \in Node : lastOk'[m] = IF m = n /\ s = "ok" THEN 0 ELSE lastOk[m]
      BY <2>0, <3>1 DEF TypeOK
    <3>5. unseen \in Nat
      BY WorldAssumption DEF TypeOK
    <3>6. Reports'
      BY <3>2, <3>3, <3>4, <3>5 DEF Reports
    <3> QED BY <3>2, <3>3, <3>4, <3>6 DEF TypeOK
  <2> QED BY <2>1, <2>2
<1>5. TypeOK'
  BY <1>1, <1>2, <1>4 DEF TypeOK
<1>6. ASSUME NEW bound \in Nat, Vouched(bound)
      PROVE  Vouched(bound)'
  <2> SUFFICES ASSUME NEW d \in Replicated
               PROVE  \E n \in d \ {Excluded} : lastOk'[n] + timer <= bound
    BY <1>1, <1>2 DEF Vouched
  <2>1. PICK n \in d \ {Excluded} : lastOk[n] + timer <= bound
    BY <1>6 DEF Vouched
  <2>2. n \in Node
    BY DatabasesAssumption DEF Replicated, Node
  <2>3. lastOk[n] \in Nat /\ timer \in Nat
    BY <2>2, Numbers DEF TypeOK, LastOkBound
  <2> QED BY <1>4, <1>6, <2>1, <2>2, <2>3
<1>7. Answered'
  <2>1. ReportLag + MaxRequest \in Nat /\ ReportLag + MaxRequest + EmitDelay \in Nat
    BY Numbers
  <2> QED BY <1>1, <1>6, <2>1 DEF Answered
<1> QED BY <1>3, <1>4, <1>5, <1>7

(* The invariant is inductive.                                             *)
LEMMA InvStep ==
    ASSUME Inv, [Next]_vars
    PROVE  Inv'
<1>1. CASE UNCHANGED vars
  BY <1>1
     DEF vars, Inv, TypeOK, Budget, Overtime, Reports, Answered, Vouched, Latest,
         LatestAnswer, LongestSleep, Interval, Excluded
<1> QED
  BY <1>1, PlainStep, ServeStep, PassStep, GoOnStep, SleepStep, GraceStep,
     TickStep, CancelStep, ChangeStep
     DEF Next, Wait

(* It holds when the first gate starts.                                    *)
LEMMA InvInit == Init => Inv
<1> SUFFICES ASSUME Init PROVE Inv
  OBVIOUS
<1>1. timing \in Timing
  BY TimingType DEF Init
<1>2. kind \in Kind /\ kind = "alive"
  BY DEF Init, Kind
<1>3. /\ sleep \in 1 .. LongestSleep(kind) /\ LongestSleep(kind) \in Nat \ {0}
      /\ timing.maxWait \in Nat \ {0}
  BY <1>1, <1>2, SleepFacts DEF Init, Timing
<1>4. TypeOK
  <2>1. 0 \in 0 .. LastOkBound /\ 0 \in 0 .. ReportLag /\ 0 \in 0 .. MaxChanges
    BY WorldAssumption, TimingAssumption DEF LastOkBound
  <2>2. state \in [Node -> NodeState] /\ reported \in [Node -> NodeState]
    BY DEF Init, NodeState
  <2>3. EmitDelay \in Nat
    BY TimingAssumption
  <2> QED BY <1>1, <1>2, <1>3, <2>1, <2>2, <2>3 DEF Init, TypeOK, Places
<1>5. Budget /\ Overtime
  BY <1>4, Numbers DEF Init, Budget, Overtime
<1>6. Reports /\ Answered
  BY DEF Init, Reports, Answered
<1> QED BY <1>4, <1>5, <1>6 DEF Inv

-----------------------------------------------------------------------------
(* The theorems. *)

(* All state of the gates has the expected types, and no sleep is longer   *)
(* than the longest.                                                       *)
THEOREM TypeCorrect == Spec => []TypeOK
<1>1. Inv /\ [Next]_vars => Inv'
  BY InvStep
<1> QED BY InvInit, <1>1, PTL DEF Spec, Inv

(* No gate whose requests come to an end is waited for longer than its     *)
(* maximal wait, one sleep, one request and the pauses after two events.   *)
THEOREM WaitIsBounded == Spec => []WaitBounded
<1>1. Inv /\ [Next]_vars => Inv'
  BY InvStep
<1>2. Inv => WaitBounded
  BY DEF Inv, Budget, Latest, LatestAnswer, WaitBounded
<1> QED BY InvInit, <1>1, <1>2, PTL DEF Spec

(* A shutdown of the operator waits for one sleep and the pauses after two *)
(* events at most, also when a request hangs.                              *)
THEOREM CancelIsBounded == Spec => []CancelBounded
<1>1. Inv /\ [Next]_vars => Inv'
  BY InvStep
<1>2. Inv => CancelBounded
  BY DEF Inv, Overtime, CancelBounded
<1> QED BY InvInit, <1>1, <1>2, PTL DEF Spec

(* Gates that pass vouch for a node of each replicated database that has   *)
(* served it no longer ago than one report, one request and the pause      *)
(* after one event.                                                        *)
THEOREM PassVouches == Spec => PassMeansServing
<1>1. Inv /\ [Next]_vars => Inv'
  BY InvStep
<1>2. ASSUME Inv, Next, pc # "passed", pc' = "passed", NEW d \in Replicated
      PROVE  \E n \in d \ {Excluded} :
                lastOk[n] <= ReportLag + MaxRequest + EmitDelay
  <2>1. GoOn
    BY <1>2 DEF Next, Wait, Announced, Ask, GiveUpCancelled, Serve, Hang, Abort,
                Pass, Block, Sleep, TimeOut, Fail, Wake, EndGrace, StartGate, Emit,
                GraceCancelled, Tick, Cancel, Change, Observe, loop
  <2>2. pc = "passing" /\ kind = "db"
    BY <1>2, <2>1 DEF GoOn, StartGate, Emit
  <2>3. PICK n \in d \ {Excluded} :
                lastOk[n] + timer <= ReportLag + MaxRequest + EmitDelay
    BY <1>2, <2>2 DEF Inv, Answered, Vouched
  <2>4. n \in Node
    BY DatabasesAssumption DEF Replicated, Node
  <2>5. lastOk[n] \in Nat /\ timer \in Nat /\ ReportLag + MaxRequest + EmitDelay \in Nat
    BY <1>2, <2>4, Numbers DEF Inv, TypeOK, LastOkBound
  <2> QED BY <2>3, <2>5
<1>3. Inv /\ [Next]_vars =>
         [pc # "passed" /\ pc' = "passed" =>
             \A d \in Replicated :
                \E n \in d \ {Excluded} :
                   lastOk[n] <= ReportLag + MaxRequest + EmitDelay]_vars
  BY <1>2
<1> QED BY InvInit, <1>1, <1>3, PTL DEF Spec, PassMeansServing

=============================================================================
