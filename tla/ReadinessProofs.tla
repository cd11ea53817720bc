--------------------------- MODULE ReadinessProofs ---------------------------
(***************************************************************************)
(* Proofs about Readiness, for any finite set of dependencies.  The        *)
(* argument: while a call collects, what is missing from its report is     *)
(* being probed or lies in the channel, once each, and the loop still has  *)
(* as many turns to go; so when it ends nothing is left anywhere.          *)
(***************************************************************************)
EXTENDS Readiness, FiniteSetTheorems, TLAPS

USE ReadinessAssumption

Status == {"disabled", "up", "down"}

Result == {r \in [name : Dependency, status : Status, ready : BOOLEAN] : r.ready <=> r.status # "down"}

CallType ==
    [pc : {"idle", "collect", "answered"}, left : Int,
     report : [Dependency -> Status \cup {"none"}], ready : BOOLEAN]

Types ==
    /\ health \in [Dependency -> Health]
    /\ probe \in [Dependency -> {"none", "running", "sent"}]
    /\ results \in Seq(Result)
    /\ call \in CallType
    /\ wasUp \subseteq Dependency

\* What a status says of the dependency.
Sound(d, status) ==
    /\ status = "up" => d \in wasUp
    /\ status = "disabled" => d \notin Configured
    /\ status = "down" => d \in Configured

Queued(d) == \E i \in 1..Len(results) : results[i].name = d

Waiting == {d \in Dependency : call.report[d] = "none"}

\* Nothing is under way between two calls.
Quiet == call.pc = "idle" => results = <<>> /\ \A d \in Dependency : probe[d] = "none"

\* Each dependency is reported, in the channel, or being probed: one of them.
Accounted ==
    call.pc # "idle" =>
        /\ \A d \in Dependency : /\ probe[d] \in {"running", "sent"}
                                 /\ probe[d] = "running" => ~ Queued(d) /\ call.report[d] = "none"
                                 /\ probe[d] = "sent" => (Queued(d) <=> call.report[d] = "none")
        /\ \A i, j \in 1..Len(results) : results[i].name = results[j].name => i = j

\* What is reported and what is in the channel is true.
Truthful ==
    /\ \A i \in 1..Len(results) : Sound(results[i].name, results[i].status)
    /\ \A d \in Dependency : Sound(d, call.report[d])
    /\ call.ready <=> \A d \in Dependency : call.report[d] # "down"

\* The loop has a turn for each dependency that waits.
Turns ==
    /\ call.pc = "collect" => call.left = Cardinality(Waiting) /\ UpNow \subseteq wasUp
    /\ call.pc = "answered" => Waiting = {}

IInv == Types /\ Quiet /\ Accounted /\ Truthful /\ Turns

-----------------------------------------------------------------------------

LEMMA Init_IInv == Init => IInv
<1> SUFFICES ASSUME Init PROVE IInv
  OBVIOUS
<1> USE DEF Init, NoCall
<1>1. Types
  BY DEF Types, CallType
<1>2. Quiet /\ Accounted /\ Turns
  BY DEF Quiet, Accounted, Turns
<1>3. Truthful
  BY DEF Truthful, Sound
<1> QED
  BY <1>1, <1>2, <1>3 DEF IInv

LEMMA CallStep == IInv /\ Call => IInv'
<1> SUFFICES ASSUME IInv, Call PROVE IInv'
  OBVIOUS
<1>1. /\ call' = [pc |-> "collect", left |-> Cardinality(Dependency),
                  report |-> [d \in Dependency |-> "none"], ready |-> TRUE]
      /\ results = <<>> /\ results' = <<>> /\ health' = health /\ wasUp' = UpNow
      /\ probe' = [d \in Dependency |-> "running"]
  BY DEF Call, NoCall, IInv, Quiet
<1>2. Cardinality(Dependency) \in Nat
  BY FS_CardinalityType
<1>3. Types'
  BY <1>1, <1>2 DEF IInv, Types, CallType, UpNow
<1>4. Quiet' /\ Accounted' /\ Truthful'
  BY <1>1 DEF Quiet, Accounted, Truthful, Queued, Sound
<1>5. Waiting' = Dependency
  BY <1>1 DEF Waiting
<1>6. Turns'
  BY <1>1, <1>5 DEF Turns, UpNow
<1> QED
  BY <1>3, <1>4, <1>6 DEF IInv

\* A probe ends.
LEMMA SendStep ==
    ASSUME IInv, NEW d \in Dependency, NEW status \in Status, Sound(d, status), Send(d, status)
    PROVE  IInv'
<1> DEFINE item == [name |-> d, status |-> status, ready |-> status # "down"]
<1>1. /\ results' = Append(results, item) /\ probe' = [probe EXCEPT ![d] = "sent"]
      /\ call' = call /\ health' = health /\ wasUp' = wasUp
      /\ probe[d] = "running" /\ call.pc # "idle"
  BY DEF Send, IInv, Quiet
<1>2. item \in Result /\ results \in Seq(Result) /\ item.name = d /\ item.status = status
  BY DEF Result, IInv, Types
<1>3. /\ Len(results') = Len(results) + 1 /\ Len(results) \in Nat
      /\ \A i \in 1..Len(results) : results'[i] = results[i]
      /\ results'[Len(results) + 1] = item
  BY <1>1, <1>2
<1>4. Types'
  BY <1>1, <1>2 DEF IInv, Types
<1>5. \A e \in Dependency : Queued(e)' <=> (Queued(e) \/ e = d)
  BY <1>2, <1>3 DEF Queued
<1>6. Accounted'
  <2>1. \A e \in Dependency : /\ probe'[e] \in {"running", "sent"}
                              /\ probe'[e] = "running" => ~ Queued(e)' /\ call'.report[e] = "none"
                              /\ probe'[e] = "sent" => (Queued(e)' <=> call'.report[e] = "none")
    BY <1>1, <1>5 DEF IInv, Types, Accounted
  <2>2. \A i \in 1..Len(results) : results[i].name # d
    BY <1>1 DEF IInv, Accounted, Queued
  <2>3. \A i, j \in 1..Len(results') : results'[i].name = results'[j].name => i = j
    BY <1>1, <1>2, <1>3, <2>2 DEF IInv, Accounted
  <2> QED
    BY <2>1, <2>3 DEF Accounted
<1>7. Truthful'
  <2>1. \A i \in 1..Len(results') : Sound(results'[i].name, results'[i].status)
    BY <1>2, <1>3 DEF IInv, Truthful
  <2> QED
    BY <1>1, <2>1 DEF IInv, Truthful, Sound
<1>8. Quiet' /\ Turns'
  BY <1>1 DEF IInv, Quiet, Turns, Waiting, UpNow
<1> QED
  BY <1>4, <1>6, <1>7, <1>8 DEF IInv

LEMMA CollectStep == IInv /\ Collect => IInv'
<1> SUFFICES ASSUME IInv, Collect PROVE IInv'
  OBVIOUS
<1> DEFINE item == Head(results)
           d == item.name
<1>1. /\ results # <<>> /\ call.pc = "collect" /\ results' = Tail(results)
      /\ call' = [call EXCEPT !.left = call.left - 1, !.report[d] = item.status,
                              !.ready = call.ready /\ item.ready]
      /\ health' = health /\ probe' = probe /\ wasUp' = wasUp
  BY DEF Collect
<1>2. /\ results \in Seq(Result) /\ Len(results) \in Nat \ {0} /\ item = results[1] /\ item \in Result
      /\ Len(results') = Len(results) - 1
      /\ \A i \in 1..(Len(results) - 1) : results'[i] = results[i + 1]
      /\ results' \in Seq(Result)
  BY <1>1 DEF IInv, Types
<1>3. d \in Dependency /\ item.status \in Status /\ item.ready \in BOOLEAN
  BY <1>2 DEF Result
<1>4. call \in CallType
  BY DEF IInv, Types
<1>5. /\ call'.pc = "collect" /\ call'.left = call.left - 1
      /\ call'.report = [call.report EXCEPT ![d] = item.status]
      /\ call'.ready = (call.ready /\ item.ready)
      /\ call' \in CallType
  <2> DEFINE R == [call.report EXCEPT ![d] = item.status]
             a == [call EXCEPT !.left = call.left - 1]
             b == [a EXCEPT !.report = R]
             c == [b EXCEPT !.ready = call.ready /\ item.ready]
  <2> HIDE DEF item
  <2>1. R \in [Dependency -> Status \cup {"none"}]
    BY <1>3, <1>4 DEF CallType
  <2>2. a \in CallType /\ a.left = call.left - 1 /\ a.pc = "collect" /\ a.report = call.report /\ a.ready = call.ready
    BY <1>1, <1>4 DEF CallType
  <2>3. call' = c
    BY <1>1, <1>4 DEF CallType
  <2> HIDE DEF a, R
  <2>4. b \in CallType /\ b.left = call.left - 1 /\ b.pc = "collect" /\ b.report = R
    BY <2>1, <2>2 DEF CallType
  <2> HIDE DEF b
  <2>5. (call.ready /\ item.ready) \in BOOLEAN
    OBVIOUS
  <2>6. c \in CallType /\ c.left = call.left - 1 /\ c.pc = "collect" /\ c.report = R /\ c.ready = (call.ready /\ item.ready)
    BY <2>4, <2>5 DEF CallType
  <2> QED
    BY <2>3, <2>6 DEF R
<1> HIDE DEF item
<1>6. \A e \in Dependency : call'.report[e] = IF e = d THEN item.status ELSE call.report[e]
  BY <1>3, <1>4, <1>5 DEF CallType
<1>7. Queued(d) /\ call.report[d] = "none" /\ item.status # "none" /\ probe[d] = "sent"
  <2>1. Queued(d)
    BY <1>2 DEF Queued
  <2> QED
    BY <1>1, <1>3, <2>1 DEF IInv, Accounted, Status
<1>8. \A e \in Dependency : Queued(e)' <=> (Queued(e) /\ e # d)
  <2>1. \A i \in 1..Len(results) : results[i].name = d => i = 1
    BY <1>1, <1>2 DEF IInv, Accounted
  <2>2. ASSUME NEW e \in Dependency, Queued(e)' PROVE Queued(e) /\ e # d
    BY <1>2, <2>1, <2>2 DEF Queued
  <2>3. ASSUME NEW e \in Dependency, Queued(e), e # d PROVE Queued(e)'
    <3>1. PICK i \in 1..Len(results) : results[i].name = e
      BY <2>3 DEF Queued
    <3>2. i # 1 /\ i - 1 \in 1..(Len(results) - 1)
      BY <1>2, <2>3, <3>1
    <3>3. results'[i - 1] = results[i]
      BY <1>2, <3>1, <3>2
    <3> QED
      BY <1>2, <3>1, <3>2, <3>3 DEF Queued
  <2> QED
    BY <2>2, <2>3
<1>9. Types' /\ Quiet'
  BY <1>1, <1>2, <1>5 DEF IInv, Types, Quiet
<1>10. Accounted'
  <2>1. \A e \in Dependency : /\ probe'[e] \in {"running", "sent"}
                              /\ probe'[e] = "running" => ~ Queued(e)' /\ call'.report[e] = "none"
                              /\ probe'[e] = "sent" => (Queued(e)' <=> call'.report[e] = "none")
    BY <1>1, <1>3, <1>6, <1>7, <1>8 DEF IInv, Accounted
  <2>2. \A i, j \in 1..Len(results') : results'[i].name = results'[j].name => i = j
    BY <1>1, <1>2 DEF IInv, Accounted
  <2> QED
    BY <2>1, <2>2 DEF Accounted
<1>11. Truthful'
  <2>1. Sound(d, item.status) /\ (item.ready <=> item.status # "down")
    BY <1>2 DEF IInv, Truthful, Result
  <2>2. \A i \in 1..Len(results') : Sound(results'[i].name, results'[i].status)
    BY <1>2 DEF IInv, Truthful
  <2>3. \A e \in Dependency : Sound(e, call'.report[e])
    BY <1>6, <2>1 DEF IInv, Truthful
  <2>4. call'.ready <=> \A e \in Dependency : call'.report[e] # "down"
    BY <1>3, <1>5, <1>6, <1>7, <2>1 DEF IInv, Truthful
  <2> QED
    BY <1>1, <2>2, <2>3, <2>4 DEF Truthful, Sound
<1>12. Turns'
  <2>1. Waiting' = Waiting \ {d} /\ d \in Waiting
    BY <1>3, <1>6, <1>7 DEF Waiting
  <2>2. IsFiniteSet(Waiting)
    BY FS_Subset DEF Waiting
  <2>3. Cardinality(Waiting') = Cardinality(Waiting) - 1
    BY <2>1, <2>2, FS_RemoveElement
  <2> QED
    BY <1>1, <1>5, <2>3 DEF IInv, Turns, UpNow
<1> QED
  BY <1>9, <1>10, <1>11, <1>12 DEF IInv

LEMMA ReturnStep == IInv /\ Return => IInv'
<1> SUFFICES ASSUME IInv, Return PROVE IInv'
  OBVIOUS
<1>1. /\ call.pc = "collect" /\ call.left = 0 /\ call' = [call EXCEPT !.pc = "answered"]
      /\ health' = health /\ probe' = probe /\ results' = results /\ wasUp' = wasUp
      /\ call \in CallType
  BY DEF Return, IInv, Types
<1>2. call' \in CallType /\ call'.pc = "answered" /\ call'.report = call.report /\ call'.ready = call.ready
  BY <1>1 DEF CallType
<1>3. Waiting = {}
  <2>1. IsFiniteSet(Waiting)
    BY FS_Subset DEF Waiting
  <2> QED
    BY <1>1, <2>1, FS_EmptySet DEF IInv, Turns
<1>4. Types' /\ Quiet' /\ Accounted'
  BY <1>1, <1>2 DEF IInv, Types, Quiet, Accounted, Queued
<1>5. Truthful' /\ Turns'
  BY <1>1, <1>2, <1>3 DEF IInv, Truthful, Sound, Turns, Waiting
<1> QED
  BY <1>4, <1>5 DEF IInv

LEMMA ForgetStep == IInv /\ Forget => IInv'
<1> SUFFICES ASSUME IInv, Forget PROVE IInv'
  OBVIOUS
<1> USE DEF Forget, NoCall
<1>1. Types'
  BY DEF IInv, Types, CallType
<1>2. Quiet' /\ Accounted' /\ Turns'
  BY DEF Quiet, Accounted, Turns
<1>3. Truthful'
  BY DEF Truthful, Sound
<1> QED
  BY <1>1, <1>2, <1>3 DEF IInv

LEMMA ChangeStep ==
    ASSUME IInv, NEW d \in Dependency, NEW state \in Health, Change(d, state)
    PROVE  IInv'
<1>1. /\ health' = [health EXCEPT ![d] = state] /\ wasUp \subseteq wasUp' /\ wasUp' \subseteq Dependency
      /\ call.pc = "collect" /\ state = "up" => d \in wasUp'
      /\ probe' = probe /\ results' = results /\ call' = call
  BY DEF Change, IInv, Types
<1>2. Types' /\ Quiet' /\ Accounted'
  BY <1>1 DEF IInv, Types, Quiet, Accounted, Queued
<1>3. Truthful'
  BY <1>1 DEF IInv, Truthful, Sound
<1>4. Turns'
  BY <1>1 DEF IInv, Types, Turns, Waiting, UpNow
<1> QED
  BY <1>2, <1>3, <1>4 DEF IInv

LEMMA IInvStep == IInv /\ [Next]_vars => IInv'
<1> SUFFICES ASSUME IInv, [Next]_vars PROVE IInv'
  OBVIOUS
<1>1. ASSUME NEW d \in Dependency, Disabled(d) PROVE IInv'
  BY <1>1, SendStep DEF Disabled, Sound, Status
<1>2. ASSUME NEW d \in Dependency, Ping(d) PROVE IInv'
  <2>1. health[d] \in {"up", "down"} /\ d \in Configured /\ Send(d, health[d])
    BY <1>2 DEF Ping, IInv, Types, Health
  <2>2. probe[d] = "running"
    BY <2>1 DEF Send
  <2>3. call.pc = "collect"
    BY <2>2 DEF IInv, Types, CallType, Quiet, Accounted, Turns, Waiting
  <2>4. Sound(d, health[d])
    BY <2>1, <2>3 DEF IInv, Turns, UpNow, Sound
  <2> QED
    BY <2>1, <2>4, SendStep DEF Status
<1>3. ASSUME NEW d \in Dependency, PingTimesOut(d) PROVE IInv'
  BY <1>3, SendStep DEF PingTimesOut, Sound, Status
<1>4. CASE UNCHANGED vars
  BY <1>4 DEF vars, IInv, Types, Quiet, Accounted, Queued, Truthful, Sound, Turns, Waiting, UpNow
<1> QED
  BY <1>1, <1>2, <1>3, <1>4, CallStep, CollectStep, ReturnStep, ForgetStep, ChangeStep
     DEF Next, Ready, Probe

LEMMA Invariant == Spec => []IInv
BY Init_IInv, IInvStep, PTL DEF Spec

\* The verdict of a call is true of the dependencies, in whatever order the
\* probes of Ready end.
THEOREM Truth == Spec => []VerdictTruthful
<1>1. IInv => VerdictTruthful
  <2> SUFFICES ASSUME IInv, call.pc = "answered"
               PROVE  /\ call.ready => Configured \subseteq wasUp
                      /\ ~ call.ready => \E d \in Configured : call.report[d] = "down"
                      /\ \A d \in Dependency : call.report[d] # "none"
    BY DEF VerdictTruthful
  <2>1. \A d \in Dependency : call.report[d] # "none" /\ Sound(d, call.report[d])
    BY DEF IInv, Turns, Waiting, Truthful
  <2>2. \A d \in Dependency : call.report[d] \in Status \cup {"none"}
    BY DEF IInv, Types, CallType
  <2>3. call.ready => Configured \subseteq wasUp
    BY <2>1, <2>2 DEF IInv, Truthful, Sound, Status
  <2>4. ~ call.ready => \E d \in Configured : call.report[d] = "down"
    BY <2>1 DEF IInv, Truthful, Sound
  <2> QED
    BY <2>1, <2>3, <2>4
<1> QED
  BY <1>1, Invariant, PTL

\* Ready leaves no goroutine and no result behind.
THEOREM Leftovers == Spec => []NothingLeft
<1>1. IInv => NothingLeft
  <2> SUFFICES ASSUME IInv, call.pc = "answered"
               PROVE  results = <<>> /\ \A d \in Dependency : probe[d] = "sent"
    BY DEF NothingLeft
  <2>1. \A d \in Dependency : call.report[d] # "none"
    BY DEF IInv, Turns, Waiting
  <2>2. \A d \in Dependency : probe[d] = "sent" /\ ~ Queued(d)
    BY <2>1 DEF IInv, Accounted
  <2>3. results \in Seq(Result)
    BY DEF IInv, Types
  <2>4. Len(results) = 0
    <3> SUFFICES ASSUME Len(results) # 0 PROVE FALSE
      OBVIOUS
    <3>1. 1 \in 1..Len(results) /\ results[1] \in Result
      BY <2>3
    <3> QED
      BY <2>2, <3>1 DEF Queued, Result
  <2> QED
    BY <2>2, <2>3, <2>4
<1> QED
  BY <1>1, Invariant, PTL
\* No goroutine is blocked when it sends its result: the channel, which has a
\* place for each dependency, never holds more.
THEOREM SendsFit == Spec => [](Len(results) <= Cardinality(Dependency))
<1>1. IInv => Len(results) <= Cardinality(Dependency)
  <2> SUFFICES ASSUME IInv PROVE Len(results) <= Cardinality(Dependency)
    OBVIOUS
  <2> DEFINE names == [i \in 1..Len(results) |-> results[i].name]
  <2>1. results \in Seq(Result) /\ Len(results) \in Nat
    BY DEF IInv, Types
  <2>2. names \in [1..Len(results) -> Dependency]
    BY <2>1 DEF Result
  <2>3. IsFiniteSet(1..Len(results)) /\ Cardinality(1..Len(results)) = Len(results)
    BY SMTT(30), <2>1, FS_Interval
  <2>4. \A i, j \in 1..Len(results) : names[i] = names[j] => i = j
    <3>1. CASE call.pc = "idle"
      BY <3>1 DEF IInv, Quiet
    <3>2. CASE call.pc # "idle"
      BY <3>2 DEF IInv, Accounted
    <3> QED
      BY <3>1, <3>2
  <2> HIDE DEF names
  <2>5. ~ (Cardinality(Dependency) < Cardinality(1..Len(results)))
    BY <2>2, <2>3, <2>4, FS_PigeonHole
  <2> QED
    BY <2>1, <2>3, <2>5, FS_CardinalityType
<1> QED
  BY <1>1, Invariant, PTL

\* The loop of Ready never waits for a result that nobody will send: while it
\* has turns left, a result lies in the channel or a probe is still running,
\* and every probe ends by its own deadline at the latest.
THEOREM NeverWaitsInVain ==
    Spec => [](call.pc = "collect" /\ call.left > 0 =>
                  results # <<>> \/ \E d \in Dependency : probe[d] = "running")
<1>1. ASSUME IInv, call.pc = "collect", call.left > 0
      PROVE  results # <<>> \/ \E d \in Dependency : probe[d] = "running"
  <2>1. Waiting # {}
    BY <1>1, FS_EmptySet DEF IInv, Turns
  <2>2. PICK d \in Dependency : call.report[d] = "none"
    BY <2>1 DEF Waiting
  <2>3. probe[d] = "sent" => Queued(d)
    BY <1>1, <2>2 DEF IInv, Accounted
  <2>4. probe[d] \in {"running", "sent"}
    BY <1>1 DEF IInv, Accounted
  <2>5. Queued(d) => results # <<>>
    BY DEF Queued
  <2> QED
    BY <2>3, <2>4, <2>5
<1> QED
  BY <1>1, Invariant, PTL

=============================================================================
