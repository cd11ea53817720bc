----------------------- MODULE DeliveryTimingProofs -----------------------
(***************************************************************************)
(* Proofs about DeliveryTiming, for any number of handlers and any times   *)
(* Validate accepts.  A handler that has the event is inside its timeout,  *)
(* so inside the ack wait, so the event is not due; and each commit but    *)
(* the last was a retention older than the one after it.                   *)
(***************************************************************************)
EXTENDS DeliveryTiming, TLAPS

\* A handler at work: when it got the event, and why nobody else has it.
HandlerOK(h) ==
    /\ handler[h].since <= now
    /\ now <= handler[h].since + HandlerTimeout
    /\ handler[h].since < MaxAge
    /\ due = handler[h].since + AckWait

TimeInv == \A h \in Handler : Busy(h) => HandlerOK(h)

\* The latest commit is at least a retention younger than the one before it,
\* and when its row is gone a retention old itself; whoever is about to commit
\* has found no completed row.
RowInv ==
    /\ row.status = "completed" => applied > 0 /\ (applied - 1) * Retention <= row.at
    /\ row.status # "completed" => applied * Retention <= now
    /\ \A h \in Handler : handler[h].state = "applying" => row.status # "completed"

IInv ==
    /\ TypeOK
    /\ TimeInv
    /\ NoOverlap
    /\ RowInv
    /\ CommitsSpaced

-----------------------------------------------------------------------------
(* The types of the times.                                                 *)
LEMMA Times ==
    /\ AckWait \in Nat /\ HandlerTimeout \in Nat /\ MaxAge \in Nat /\ Retention \in Nat
    /\ RetryDelay \in Nat /\ MaxRetryDelay \in Nat /\ MaxDeliver \in Nat /\ Horizon \in Nat
    /\ HandlerTimeout < AckWait
  BY TimingAssumption DEF ConfigValid

(* Every step keeps the types.                                             *)
LEMMA TypeStep ==
    ASSUME TypeOK, [Next]_vars
    PROVE  TypeOK'
<1> USE Times
<1>1. CASE Tick
  BY <1>1 DEF TypeOK, Tick
<1>2. CASE Clean
  BY <1>2 DEF TypeOK, Clean, NoRow
<1>3. ASSUME NEW h \in Handler, Deliver(h) PROVE TypeOK'
  BY <1>3 DEF TypeOK, Deliver
<1>4. ASSUME NEW h \in Handler, Skip(h) PROVE TypeOK'
  BY <1>4 DEF TypeOK, Skip, Done, Idle
<1>5. ASSUME NEW h \in Handler, Claim(h) PROVE TypeOK'
  BY <1>5 DEF TypeOK, Claim
<1>6. ASSUME NEW h \in Handler, Complete(h) PROVE TypeOK'
  <2>1. acked' \in BOOLEAN
    BY <1>6, Zenon DEF TypeOK, Complete, Done
  <2>2. /\ handler' = [handler EXCEPT ![h] = Idle]
        /\ row' = [status |-> "completed", at |-> now] /\ applied' = applied + 1
        /\ now' = now /\ due' = due /\ deliveries' = deliveries
    BY <1>6 DEF Complete, Done
  <2> QED
    BY <2>1, <2>2 DEF TypeOK, Idle
<1>7. ASSUME NEW h \in Handler, Fail(h) PROVE TypeOK'
  BY <1>7 DEF TypeOK, Fail, Idle
<1>8. CASE UNCHANGED vars
  BY <1>8 DEF TypeOK, vars
<1> QED
  BY <1>1, <1>2, <1>3, <1>4, <1>5, <1>6, <1>7, <1>8 DEF Next, HandlerStep

(* Nobody has the event when it is delivered.                              *)
LEMMA DeliveredToNobody ==
    ASSUME TypeOK, TimeInv, NEW h \in Handler, Deliver(h)
    PROVE  \A g \in Handler : ~ Busy(g)
<1> SUFFICES ASSUME NEW g \in Handler, Busy(g) PROVE FALSE
  OBVIOUS
<1>1. handler[g].since \in Nat /\ now \in Nat /\ due \in Nat
  BY DEF TypeOK
<1>2. now <= handler[g].since + HandlerTimeout /\ due = handler[g].since + AckWait
  BY DEF TimeInv, HandlerOK
<1>3. now >= due
  BY DEF Deliver
<1> QED
  BY <1>1, <1>2, <1>3, Times

(* Deliveries start a handler's time, nothing else moves it, and only one  *)
(* handler has the event.                                                  *)
LEMMA TimeStep ==
    ASSUME TypeOK, TimeInv, NoOverlap, [Next]_vars
    PROVE  TimeInv' /\ NoOverlap'
<1> USE Times
<1>1. CASE Tick
  BY <1>1 DEF TypeOK, TimeInv, HandlerOK, NoOverlap, Busy, Tick
<1>2. CASE Clean
  BY <1>2 DEF TimeInv, HandlerOK, NoOverlap, Busy, Clean
<1>3. ASSUME NEW h \in Handler, Deliver(h) PROVE TimeInv' /\ NoOverlap'
  <2>1. \A g \in Handler : ~ Busy(g)
    BY <1>3, DeliveredToNobody
  <2>2. /\ handler'[h] = [state |-> "received", since |-> now]
        /\ \A g \in Handler \ {h} : handler'[g] = handler[g]
        /\ due' = now + AckWait /\ now' = now /\ now < MaxAge /\ now \in Nat
    BY <1>3 DEF Deliver, TypeOK
  <2>3. \A g \in Handler : Busy(g)' => g = h
    BY <2>1, <2>2 DEF Busy
  <2>4. HandlerOK(h)'
    BY <2>2 DEF HandlerOK
  <2> QED
    BY <2>3, <2>4 DEF TimeInv, NoOverlap
<1>4. ASSUME NEW h \in Handler, handler' = [handler EXCEPT ![h] = Idle], now' = now, Busy(h)
      PROVE  TimeInv' /\ NoOverlap'
  BY <1>4 DEF TypeOK, TimeInv, NoOverlap, Busy, Idle
<1>5. ASSUME NEW h \in Handler, Claim(h) PROVE TimeInv' /\ NoOverlap'
  <2>1. /\ \A g \in Handler : handler'[g].since = handler[g].since
        /\ \A g \in Handler : Busy(g)' => Busy(g)
        /\ due' = due /\ now' = now
    BY <1>5 DEF Claim, TypeOK, Busy
  <2> QED
    BY <2>1 DEF TimeInv, HandlerOK, NoOverlap
<1>6. CASE UNCHANGED vars
  BY <1>6 DEF TimeInv, HandlerOK, NoOverlap, Busy, vars
<1> QED
  BY <1>1, <1>2, <1>3, <1>4, <1>5, <1>6
  DEF Next, HandlerStep, Skip, Complete, Fail, Done, Busy

(* The time of a commit, and of the one before it at least a retention      *)
(* earlier.                                                                *)
LEMMA Spaced ==
    ASSUME NEW n \in Nat
    PROVE  /\ n * Retention \in Nat
           /\ (n + 1 - 1) * Retention = n * Retention
           /\ n > 0 => (n - 1) * Retention + Retention = n * Retention
  BY Times

(* Every step keeps what is known of the row and of the commits.           *)
LEMMA RowStep ==
    ASSUME TypeOK, TimeInv, NoOverlap, RowInv, CommitsSpaced, [Next]_vars
    PROVE  RowInv' /\ CommitsSpaced'
<1> USE Times
<1>0. now \in Nat /\ applied \in Nat /\ row.at \in Nat /\ applied * Retention \in Nat
  BY Spaced DEF TypeOK
<1>1. CASE Tick
  BY <1>0, <1>1 DEF RowInv, CommitsSpaced, Tick
<1>2. CASE Clean
  <2>1. (applied - 1) * Retention + Retention = applied * Retention
    BY <1>0, <1>2, Spaced DEF Clean, RowInv
  <2>2. (applied - 1) * Retention <= row.at /\ row.at + Retention <= now
    BY <1>0, <1>2 DEF Clean, RowInv
  <2>3. applied > 0 => (applied - 1) * Retention \in Nat
    BY <1>0, Spaced
  <2>4. applied > 0
    BY <1>2 DEF Clean, RowInv
  <2>5. applied * Retention <= now
    BY <1>0, <2>1, <2>2, <2>3, <2>4
  <2> QED
    BY <1>2, <2>5 DEF RowInv, CommitsSpaced, Clean, NoRow
<1>3. ASSUME NEW h \in Handler, Deliver(h) PROVE RowInv' /\ CommitsSpaced'
  BY <1>3 DEF RowInv, CommitsSpaced, TypeOK, Deliver
<1>4. ASSUME NEW h \in Handler, Skip(h) PROVE RowInv' /\ CommitsSpaced'
  BY <1>4 DEF RowInv, CommitsSpaced, TypeOK, Skip, Done, Idle
<1>5. ASSUME NEW h \in Handler, Claim(h) PROVE RowInv' /\ CommitsSpaced'
  BY <1>5 DEF RowInv, CommitsSpaced, Claim
<1>6. ASSUME NEW h \in Handler, Complete(h) PROVE RowInv' /\ CommitsSpaced'
  <2>1. applied * Retention <= now
    BY <1>6 DEF Complete, RowInv
  <2>2. now < MaxAge + HandlerTimeout
    <3>1. handler[h].since \in Nat /\ HandlerOK(h)
      BY <1>6 DEF Complete, TimeInv, Busy, TypeOK
    <3> QED
      BY <1>0, <3>1 DEF HandlerOK
  <2>3. (applied' - 1) * Retention = applied * Retention /\ applied' > 0
    BY <1>0, <1>6, Spaced DEF Complete
  <2>4. \A g \in Handler : handler'[g].state # "applying"
    BY <1>6 DEF Complete, Done, Idle, NoOverlap, Busy, TypeOK
  <2>5. CommitsSpaced'
    BY <1>0, <2>1, <2>2, <2>3 DEF CommitsSpaced
  <2>6. row' = [status |-> "completed", at |-> now]
    BY <1>6 DEF Complete
  <2> QED
    BY <2>1, <2>3, <2>4, <2>5, <2>6 DEF RowInv
<1>7. ASSUME NEW h \in Handler, Fail(h) PROVE RowInv' /\ CommitsSpaced'
  BY <1>7 DEF RowInv, CommitsSpaced, TypeOK, Fail, Idle
<1>8. CASE UNCHANGED vars
  BY <1>8 DEF RowInv, CommitsSpaced, vars
<1> QED
  BY <1>1, <1>2, <1>3, <1>4, <1>5, <1>6, <1>7, <1>8 DEF Next, HandlerStep

-----------------------------------------------------------------------------
(* IInv is an invariant.                                                   *)
THEOREM InductiveInvariant == Spec => []IInv
<1>1. Init => IInv
  <2> SUFFICES ASSUME Init PROVE IInv
    OBVIOUS
  <2>1. TypeOK
    <3>1. acked \in BOOLEAN
      BY Zenon DEF Init
    <3>2. handler \in [Handler -> [state : {"idle", "received", "applying"}, since : Nat]]
      BY DEF Init, Idle
    <3>3. now = 0 /\ deliveries = 0 /\ due = 0 /\ row = NoRow /\ applied = 0
      BY DEF Init
    <3> QED
      BY <3>1, <3>2, <3>3, Times DEF TypeOK, NoRow
  <2>2. \A h \in Handler : handler[h].state = "idle"
    BY DEF Init, Idle
  <2>3. TimeInv /\ NoOverlap
    BY <2>2 DEF TimeInv, NoOverlap, Busy
  <2>4. RowInv /\ CommitsSpaced
    BY <2>2, Times DEF RowInv, CommitsSpaced, Init, NoRow
  <2> QED
    BY <2>1, <2>3, <2>4 DEF IInv
<1>2. IInv /\ [Next]_vars => IInv'
  BY TypeStep, TimeStep, RowStep DEF IInv
<1> QED
  BY <1>1, <1>2, PTL DEF Spec

(* Types; the stream delivers an event MaxDeliver times at most.           *)
THEOREM TypeCorrect == Spec => []TypeOK
<1>1. IInv => TypeOK
  BY DEF IInv
<1> QED
  BY <1>1, InductiveInvariant, PTL

(* Handlers of one event never overlap, whatever times Validate accepts.   *)
THEOREM HandlersApart == Spec => []NoOverlap
<1>1. IInv => NoOverlap
  BY DEF IInv
<1> QED
  BY <1>1, InductiveInvariant, PTL

(* An event is committed again only after another retention, whatever the  *)
(* retention is, and never later than it can be with a handler.            *)
THEOREM CommitsApart == Spec => []CommitsSpaced
<1>1. IInv => CommitsSpaced
  BY DEF IInv
<1> QED
  BY <1>1, InductiveInvariant, PTL

(* The inbox commits an event once at most when its retention covers the   *)
(* stream's age limit and one handler timeout, as the defaults do.         *)
THEOREM Idempotent == Spec => [](RetentionCovers => applied <= 1)
<1>1. IInv => (RetentionCovers => applied <= 1)
  <2> SUFFICES ASSUME TypeOK, CommitsSpaced, RetentionCovers, applied > 1 PROVE FALSE
    BY DEF IInv, TypeOK
  <2>1. applied - 2 \in Nat /\ applied - 1 = applied - 2 + 1
    BY DEF TypeOK
  <2>2. (applied - 1) * Retention = (applied - 2) * Retention + Retention
    BY <2>1, Times
  <2>3. (applied - 2) * Retention \in Nat
    BY <2>1, Spaced
  <2> HIDE DEF TypeOK
  <2> QED
    BY <2>1, <2>2, <2>3, Times DEF CommitsSpaced, RetentionCovers, TypeOK
<1> QED
  BY <1>1, InductiveInvariant, PTL
=============================================================================
