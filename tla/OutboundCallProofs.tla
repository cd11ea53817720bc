------------------------- MODULE OutboundCallProofs -------------------------
(***************************************************************************)
(* Proofs about OutboundCall, for any callers, retry policy and threshold. *)
(* The argument: a call has been sent as often as its attempts say and     *)
(* makes none beyond its limit; the calls the breaker still watches were   *)
(* admitted in its present state, so that a trial state with room for one  *)
(* watches none.                                                           *)
(***************************************************************************)
EXTENDS OutboundCall, FiniteSetTheorems, TLAPS

USE PolicyAssumption

\* Attempts and sends of a call keep step, within its limit.
Counted(c) ==
    /\ call[c].pc = "idle" => call[c].sent = 0
    /\ call[c].pc = "ready" => call[c].sent = call[c].attempt - 1
    /\ call[c].pc \in {"sent", "backoff"} => call[c].sent = call[c].attempt
    /\ call[c].pc \in {"ready", "sent", "backoff"} => call[c].attempt \in 1..Limit(c)
    /\ call[c].pc = "backoff" => call[c].attempt < Limit(c)
    /\ call[c].pc = "done" => call[c].sent <= Limit(c)

\* The client owns no body but one it is about to hand over.
Owned(c) ==
    call[c].bodies = IF kind = "http" /\ call[c].pc = "done" /\ call[c].result \in {"success", "retryable"}
                     THEN 1 ELSE 0

\* A call under way whose end the breaker will count.
Watching(c) == call[c].fresh /\ call[c].pc \in {"ready", "sent", "backoff"}

Trial ==
    /\ ~ BreakerEnabled => breaker.state = "closed" /\ \A c \in Caller : ~ call[c].fresh
    /\ breaker.state = "open" => \A c \in Caller : ~ Watching(c)
    /\ breaker.state = "halfopen" =>
          /\ breaker.trials = 0 => \A c \in Caller : ~ Watching(c)
          /\ \A c, d \in Caller : Watching(c) /\ Watching(d) => c = d

IInv == TypeOK /\ Trial /\ \A c \in Caller : Counted(c) /\ Owned(c)

-----------------------------------------------------------------------------

\* What the breaker can be after a call it has watched.
LEMMA AfterCallType ==
    ASSUME TypeOK, NEW result, NEW b \in AfterCall(result)
    PROVE  /\ b \in [state : {"closed", "open", "halfopen"}, failures : 0..(FailureThreshold - 1), trials : 0..1]
           /\ b.state = "halfopen" => breaker.state = "halfopen"
           /\ b.state = "open" /\ breaker.state # "open" => result # "success" /\ ~ Excluded(result)
BY DEF TypeOK, AfterCall, AfterFailure, AfterSuccess, In

\* A call ends: what becomes of breaker and calls.
LEMMA EndStep ==
    ASSUME TypeOK, NEW c \in Caller, NEW result \in Results, End(c, result)
    PROVE  /\ TypeOK'
           /\ kind' = kind
           /\ call[c].fresh \/ breaker' = breaker
           /\ call[c].fresh => breaker' \in AfterCall(result)
           /\ \A d \in Caller \ {c} :
                 call'[d] = [call[d] EXCEPT !.fresh = @ /\ breaker'.state = breaker.state]
           /\ call'[c] = [call[c] EXCEPT
                 !.fresh = @ /\ breaker'.state = breaker.state, !.pc = "done", !.result = result,
                 !.bodies = @ + IF kind = "http" /\ result \in {"success", "retryable"} THEN 1 ELSE 0]
<1>1. breaker' \in [state : {"closed", "open", "halfopen"}, failures : 0..(FailureThreshold - 1), trials : 0..1]
  BY AfterCallType DEF End, TypeOK
<1>2. \A d \in Caller \ {c} :
         call'[d] = [call[d] EXCEPT !.fresh = @ /\ breaker'.state = breaker.state]
  BY DEF End, Watched, TypeOK, CallType
<1>3. call'[c] = [call[c] EXCEPT
                 !.fresh = @ /\ breaker'.state = breaker.state, !.pc = "done", !.result = result,
                 !.bodies = @ + IF kind = "http" /\ result \in {"success", "retryable"} THEN 1 ELSE 0]
  BY DEF End, Watched, TypeOK, CallType
<1>4. call' \in [Caller -> CallType]
  <2>1. \A d \in Caller : call[d] \in CallType
    BY DEF TypeOK
  <2>2. ASSUME NEW d \in Caller \ {c} PROVE call'[d] \in CallType
    <3> DEFINE fresh == call[d].fresh /\ breaker'.state = breaker.state
    <3>1. fresh \in BOOLEAN
      OBVIOUS
    <3>2. call'[d] = [call[d] EXCEPT !.fresh = fresh] /\ call[d] \in CallType
      BY <1>2, <2>1, <2>2
    <3> HIDE DEF fresh
    <3> QED
      BY <3>1, <3>2 DEF CallType
  <2>3. call[c].bodies + (IF kind = "http" /\ result \in {"success", "retryable"} THEN 1 ELSE 0) \in Nat
    BY <2>1 DEF CallType
  <2>4. call'[c] \in CallType
    BY <1>3, <2>1, <2>3 DEF CallType
  <2>5. call' = [d \in Caller |-> call'[d]]
    BY DEF End, Watched
  <2> QED
    BY <2>2, <2>4, <2>5
<1> QED
  BY <1>1, <1>2, <1>3, <1>4 DEF End, TypeOK

\* A call that ends keeps the invariant.
LEMMA EndKeeps ==
    ASSUME IInv, NEW c \in Caller, NEW result \in Results, End(c, result),
           call[c].pc \in {"ready", "sent", "backoff"}
    PROVE  IInv'
<1> USE DEF IInv
<1>1. TypeOK' /\ kind' = kind
  BY EndStep
<1>2. \A d \in Caller : call[d] \in CallType /\ call'[d] \in CallType
  BY <1>1 DEF TypeOK
<1>3. ASSUME NEW d \in Caller \ {c}
      PROVE  /\ call'[d].pc = call[d].pc /\ call'[d].retryable = call[d].retryable
             /\ call'[d].attempt = call[d].attempt /\ call'[d].sent = call[d].sent
             /\ call'[d].bodies = call[d].bodies /\ call'[d].result = call[d].result
             /\ call'[d].fresh <=> call[d].fresh /\ breaker'.state = breaker.state
             /\ (Counted(d) /\ Owned(d))'
  <2>1. call'[d] = [call[d] EXCEPT !.fresh = @ /\ breaker'.state = breaker.state]
    BY EndStep
  <2>2. /\ call'[d].pc = call[d].pc /\ call'[d].retryable = call[d].retryable
        /\ call'[d].attempt = call[d].attempt /\ call'[d].sent = call[d].sent
        /\ call'[d].bodies = call[d].bodies /\ call'[d].result = call[d].result
        /\ call'[d].fresh <=> call[d].fresh /\ breaker'.state = breaker.state
    BY <1>2, <2>1 DEF CallType
  <2>3. Counted(d) /\ Owned(d)
    OBVIOUS
  <2> QED
    BY <1>1, <2>2, <2>3 DEF Counted, Owned, Limit
<1>4. /\ call'[c].pc = "done"
      /\ call'[c].fresh => call[c].fresh /\ breaker'.state = breaker.state
      /\ (Counted(c) /\ Owned(c))'
  <2>1. call'[c] = [call[c] EXCEPT
           !.fresh = @ /\ breaker'.state = breaker.state, !.pc = "done", !.result = result,
           !.bodies = @ + IF kind = "http" /\ result \in {"success", "retryable"} THEN 1 ELSE 0]
    BY EndStep
  <2>2. /\ call'[c].pc = "done" /\ call'[c].retryable = call[c].retryable
        /\ call'[c].sent = call[c].sent /\ call'[c].result = result
        /\ call'[c].bodies = call[c].bodies
                             + IF kind = "http" /\ result \in {"success", "retryable"} THEN 1 ELSE 0
        /\ call'[c].fresh => call[c].fresh /\ breaker'.state = breaker.state
    BY <1>2, <2>1 DEF CallType
  <2>3. call[c].bodies = 0 /\ call[c].sent <= Limit(c)
    BY <1>2 DEF Counted, Owned, Limit, CallType
  <2> QED
    BY <1>1, <2>2, <2>3 DEF Counted, Owned, Limit
<1>5. \A d \in Caller :
         /\ call'[d].fresh => call[d].fresh /\ breaker'.state = breaker.state
         /\ Watching(d)' => Watching(d) /\ breaker'.state = breaker.state /\ d # c
  <2> SUFFICES ASSUME NEW d \in Caller
               PROVE  /\ call'[d].fresh => call[d].fresh /\ breaker'.state = breaker.state
                      /\ Watching(d)' => Watching(d) /\ breaker'.state = breaker.state /\ d # c
    OBVIOUS
  <2>1. CASE d = c
    BY <1>4, <2>1 DEF Watching
  <2>2. CASE d # c
    BY <1>3, <2>2 DEF Watching
  <2> QED
    BY <2>1, <2>2
<1>6. Trial'
  <2>1. CASE ~ call[c].fresh
    <3>1. breaker' = breaker
      BY <2>1, EndStep
    <3> QED
      BY <1>5, <3>1 DEF Trial
  <2>2. CASE call[c].fresh
    <3>1. BreakerEnabled /\ Watching(c) /\ breaker' \in AfterCall(result)
      BY <2>2, EndStep DEF Trial, Watching
    <3>2. breaker'.state = "halfopen" => breaker.state = "halfopen"
      BY <3>1, AfterCallType
    <3>3. breaker'.state = "open" => \A d \in Caller : ~ Watching(d)'
      BY <1>5, <3>1 DEF Trial
    <3>4. breaker'.state = "halfopen" => \A d \in Caller : ~ Watching(d)'
      BY <1>5, <3>1, <3>2 DEF Trial
    <3> QED
      BY <3>1, <3>3, <3>4 DEF Trial
  <2> QED
    BY <2>1, <2>2
<1> QED
  BY <1>1, <1>3, <1>4, <1>6

\* A step that ends no call changes one call, and the breaker only as Begin does.
LEMMA CallStepKeeps ==
    ASSUME IInv, NEW c \in Caller, CallStep(c)
    PROVE  IInv'
<1> USE DEF IInv
<1>1. \A d \in Caller : call[d] \in CallType
  BY DEF TypeOK
<1>2. CASE BadPath(c)
  BY <1>2, EndKeeps DEF BadPath, Results
<1>3. CASE Send(c)
  BY <1>1, <1>3 DEF Send, TypeOK, Counted, Owned, Trial, Watching, Limit, CallType
<1>4. CASE Answer(c)
  <2>1. PICK answer \in Answers(c) :
          \/ Repeats(answer) /\ call[c].attempt < Limit(c) /\ BackOff(c, answer)
          \/ End(c, answer)
    BY <1>4 DEF Answer
  <2>2. call[c].pc = "sent" /\ answer \in Results
    BY <1>1, <1>4 DEF Answer, Answers, Results, CallType
  <2>3. CASE End(c, answer)
    BY <2>2, <2>3, EndKeeps
  <2>4. CASE call[c].attempt < Limit(c) /\ BackOff(c, answer)
    BY <1>1, <2>2, <2>4 DEF BackOff, TypeOK, Counted, Owned, Trial, Watching, Limit, CallType
  <2> QED
    BY <2>1, <2>3, <2>4
<1>5. CASE BackoffElapsed(c)
  BY <1>1, <1>5 DEF BackoffElapsed, TypeOK, Counted, Owned, Trial, Watching, Limit, CallType
<1>6. CASE BackoffCancelled(c)
  <2>1. PICK result \in Results : End(c, result)
    BY <1>1, <1>6 DEF BackoffCancelled, Results, CallType
  <2> QED
    BY <1>6, <2>1, EndKeeps DEF BackoffCancelled
<1> QED
  BY <1>2, <1>3, <1>4, <1>5, <1>6 DEF CallStep

\* Every step keeps the invariant.
LEMMA Inductive == IInv /\ [Next]_vars => IInv'
<1> SUFFICES ASSUME IInv, [Next]_vars PROVE IInv'
  OBVIOUS
<1> USE DEF IInv
<1>1. \A d \in Caller : call[d] \in CallType
  BY DEF TypeOK
<1>2. CASE OpenTimeout
  <2>1. ASSUME NEW d \in Caller
        PROVE  /\ call'[d] = [call[d] EXCEPT !.fresh = FALSE]
               /\ call'[d] \in CallType /\ (Counted(d) /\ Owned(d))' /\ ~ call'[d].fresh
    <3>1. call'[d] = [call[d] EXCEPT !.fresh = FALSE]
      BY <1>1, <1>2 DEF OpenTimeout, In, Watched, CallType
    <3>2. kind' = kind /\ Counted(d) /\ Owned(d) /\ call[d] \in CallType
      BY <1>1, <1>2 DEF OpenTimeout
    <3> QED
      BY <3>1, <3>2 DEF CallType, Counted, Owned, Limit
  <2>2. call' = [d \in Caller |-> call'[d]]
    BY <1>2 DEF OpenTimeout, Watched
  <2>3. call' \in [Caller -> CallType]
    BY <2>1, <2>2
  <2>4. breaker' = In("halfopen") /\ kind' = kind /\ BreakerEnabled
    BY <1>2 DEF OpenTimeout
  <2>5. TypeOK'
    BY <2>3, <2>4 DEF TypeOK, In
  <2>6. Trial'
    BY <2>1, <2>4 DEF Trial, Watching, In
  <2> QED
    BY <2>1, <2>5, <2>6
<1>3. ASSUME NEW c \in Caller, NEW retryable \in BOOLEAN, Begin(c, retryable) PROVE IInv'
  <2>1. call' = [call EXCEPT ![c] = [NoCall EXCEPT !.pc = "ready", !.retryable = retryable,
                                                  !.attempt = 1, !.fresh = BreakerEnabled]]
    BY <1>3 DEF Begin
  <2>2. /\ kind' = kind /\ breaker'.state = breaker.state
        /\ breaker' \in [state : {"closed", "open", "halfopen"}, failures : 0..(FailureThreshold - 1), trials : 0..1]
        /\ breaker.state = "halfopen" => breaker'.trials = 1
        /\ BreakerEnabled => breaker.state # "open"
        /\ BreakerEnabled /\ breaker.state = "halfopen" => \A d \in Caller : ~ Watching(d)
    BY <1>3 DEF Begin, Admits, TypeOK, Trial
  <2>3. TypeOK'
    <3>1. [NoCall EXCEPT !.pc = "ready", !.retryable = retryable, !.attempt = 1, !.fresh = BreakerEnabled]
            \in CallType
      <4>1. /\ 0 \in 0..MaxAttempts /\ 1 \in 0..MaxAttempts
            /\ NoCall \in CallType
        BY DEF CallType, NoCall, Results
      <4> QED
        BY <4>1 DEF CallType
    <3> QED
      BY <2>1, <2>2, <3>1 DEF TypeOK
  <2>4. \A d \in Caller : (Counted(d) /\ Owned(d))'
    BY <1>1, <2>1, <2>2 DEF Counted, Owned, Limit, CallType, NoCall, TypeOK
  <2>5. \A d \in Caller \ {c} : (Watching(d)' <=> Watching(d)) /\ call'[d].fresh = call[d].fresh
    <3>1. \A d \in Caller \ {c} : call'[d] = call[d]
      BY <2>1 DEF TypeOK
    <3> QED
      BY <3>1 DEF Watching
  <2>6. Watching(c)' => BreakerEnabled
    BY <2>1 DEF Watching, TypeOK, NoCall
  <2>7. ~ BreakerEnabled => ~ call'[c].fresh
    BY <2>1 DEF TypeOK, NoCall
  <2>8. Trial'
    BY <2>2, <2>5, <2>6, <2>7 DEF Trial
  <2> QED
    BY <2>3, <2>4, <2>8
<1>4. ASSUME NEW c \in Caller, Reject(c) \/ ContextDone(c) \/ Return(c) PROVE IInv'
  <2>1. CASE Reject(c)
    <3>1. [NoCall EXCEPT !.pc = "done", !.result = "rejected"] \in CallType
      <4>1. NoCall \in CallType
        BY DEF CallType, NoCall, Results
      <4> QED
        BY <4>1 DEF CallType, Results
    <3>2. TypeOK'
      BY <2>1, <3>1 DEF Reject, TypeOK
    <3>3. \A d \in Caller : (Counted(d) /\ Owned(d))'
      BY <1>1, <2>1 DEF Reject, NoCall, TypeOK, Counted, Owned, Limit, CallType
    <3>4. \A d \in Caller : (Watching(d)' => Watching(d)) /\ (call'[d].fresh => call[d].fresh)
      BY <1>1, <2>1 DEF Reject, NoCall, TypeOK, Watching, CallType
    <3> QED
      BY <2>1, <3>2, <3>3, <3>4 DEF Reject, Trial
  <2>2. CASE ContextDone(c)
    BY <1>1, <2>2 DEF ContextDone, TypeOK, Counted, Owned, Trial, Watching, Limit, CallType
  <2>3. CASE Return(c)
    BY <1>1, <2>3 DEF Return, NoCall, TypeOK, Counted, Owned, Trial, Watching, Limit, CallType, Results
  <2> QED
    BY <1>4, <2>1, <2>2, <2>3
<1>5. ASSUME NEW c \in Caller, CallStep(c) PROVE IInv'
  BY <1>5, CallStepKeeps
<1>6. CASE UNCHANGED vars
  BY <1>6 DEF vars, TypeOK, Counted, Owned, Trial, Watching, Limit
<1> QED
  BY <1>2, <1>3, <1>4, <1>5, <1>6 DEF Next

\* The invariant holds first and stays.
LEMMA Invariant == Spec => []IInv
<1>1. Init => IInv
  <2>1. NoCall \in CallType
    BY DEF CallType, NoCall, Results
  <2> QED
    BY <2>1 DEF Init, IInv, TypeOK, Counted, Owned, Trial, Watching, NoCall
<1> QED
  BY <1>1, Inductive, PTL DEF Spec

-----------------------------------------------------------------------------
(* Theorems.                                                               *)

\* Types, and a closed breaker has counted fewer failures than open it.
THEOREM TypeCorrect == Spec => []TypeOK
<1>1. IInv => TypeOK
  BY DEF IInv
<1> QED
  BY <1>1, Invariant, PTL

\* The upstream sees a call no more often than the policy says.
THEOREM PolicyKept == Spec => []SentWithinPolicy
<1>1. IInv => SentWithinPolicy
  <2> SUFFICES ASSUME IInv, NEW c \in Caller PROVE call[c].sent <= Limit(c)
    BY DEF SentWithinPolicy, Limit
  <2>1. Counted(c) /\ call[c] \in CallType
    BY DEF IInv, TypeOK
  <2> QED
    BY <2>1 DEF Counted, CallType, Limit
<1> QED
  BY <1>1, Invariant, PTL

\* Every response body has one owner.
THEOREM BodiesHandedOver == Spec => []BodiesOwned
<1>1. IInv => BodiesOwned
  BY DEF IInv, Owned, BodiesOwned
<1> QED
  BY <1>1, Invariant, PTL

\* A breaker on trial lets one call through, an open one none.
THEOREM OneTrial == Spec => []TrialAlone
<1>1. IInv => TrialAlone
  <2> SUFFICES ASSUME IInv PROVE TrialAlone
    OBVIOUS
  <2> DEFINE watched == {c \in Caller : call[c].fresh /\ call[c].pc \in {"ready", "sent", "backoff"}}
  <2>1. breaker.state = "open" => watched = {}
    BY DEF IInv, Trial, Watching
  <2>2. ASSUME breaker.state = "halfopen" PROVE Cardinality(watched) <= 1
    <3>1. CASE watched = {}
      BY <3>1, FS_EmptySet
    <3>2. CASE watched # {}
      <4>1. PICK c \in watched : watched = {c}
        BY <2>2, <3>2 DEF IInv, Trial, Watching
      <4>2. Cardinality({c}) = 1
        BY FS_Singleton
      <4> HIDE DEF watched
      <4> QED
        BY <4>1, <4>2
    <3> QED
      BY <3>1, <3>2
  <2> QED
    BY <2>1, <2>2 DEF TrialAlone
<1> QED
  BY <1>1, Invariant, PTL

\* Only a call that ended in a failure of the upstream opens the breaker.
THEOREM OpenedByFailure == Spec => OpensOnFailure
<1> DEFINE Blamed == breaker.state # "open" /\ breaker'.state = "open" =>
              \E c \in Caller : /\ call[c].pc # "done" /\ call'[c].pc = "done"
                                /\ call'[c].result \in {"retryable", "transport", "deadline", "path"}
<1>1. ASSUME IInv, [Next]_vars PROVE Blamed
  <2>1. \A d \in Caller : call[d] \in CallType
    BY <1>1 DEF IInv, TypeOK
  <2>2. ASSUME NEW c \in Caller, NEW result \in Results, End(c, result), call[c].pc # "done",
               kind = "http" => result \in {"path", "success", "retryable", "transport", "deadline", "cancelled"}
        PROVE  Blamed
    <3>1. TypeOK /\ call[c] \in CallType
      BY <1>1, <2>1 DEF IInv
    <3>2. call'[c].pc = "done" /\ call'[c].result = result
      <4>1. call'[c] = [call[c] EXCEPT
               !.fresh = @ /\ breaker'.state = breaker.state, !.pc = "done", !.result = result,
               !.bodies = @ + IF kind = "http" /\ result \in {"success", "retryable"} THEN 1 ELSE 0]
        BY <2>2, <3>1, EndStep
      <4> QED
        BY <3>1, <4>1 DEF CallType
    <3>3. breaker.state # "open" /\ breaker'.state = "open" => result # "success" /\ ~ Excluded(result)
      BY <2>2, <3>1, EndStep, AfterCallType
    <3>4. result # "success" /\ ~ Excluded(result) => result \in {"retryable", "transport", "deadline", "path"}
      BY <2>2, <3>1 DEF Excluded, TypeOK
    <3> QED
      BY <2>2, <3>2, <3>3, <3>4
  <2>3. ASSUME NEW c \in Caller, CallStep(c) PROVE Blamed
    <3>1. CASE BadPath(c)
      BY <2>2, <3>1 DEF BadPath, Results
    <3>2. CASE Answer(c)
      <4>1. PICK answer \in Answers(c) : BackOff(c, answer) \/ End(c, answer)
        BY <3>2 DEF Answer
      <4>3. BackOff(c, answer) => Blamed
        BY DEF BackOff
      <4>2. call[c].pc = "sent" /\ answer \in Results
              /\ (kind = "http" => answer \in {"success", "retryable", "transport", "deadline", "cancelled"})
        BY <2>1, <3>2 DEF Answer, Answers, Results, CallType
      <4> QED
        BY <2>2, <4>1, <4>2, <4>3
    <3>3. CASE BackoffCancelled(c)
      <4>1. PICK result \in Results :
              End(c, result) /\ (kind = "http" => result \in {"deadline", "cancelled"})
        BY <2>1, <3>3 DEF BackoffCancelled, Results, CallType
      <4> QED
        BY <2>2, <3>3, <4>1 DEF BackoffCancelled
    <3>4. CASE Send(c) \/ BackoffElapsed(c)
      BY <3>4 DEF Send, BackoffElapsed
    <3> QED
      BY <2>3, <3>1, <3>2, <3>3, <3>4 DEF CallStep
  <2>4. ASSUME NEW c \in Caller, NEW retryable \in BOOLEAN, Begin(c, retryable) PROVE Blamed
    BY <1>1, <2>4 DEF Begin, IInv, TypeOK
  <2>5. ASSUME NEW c \in Caller, Reject(c) \/ ContextDone(c) \/ Return(c) PROVE Blamed
    BY <2>5 DEF Reject, ContextDone, Return
  <2>6. CASE OpenTimeout \/ UNCHANGED vars
    BY <2>6 DEF OpenTimeout, In, vars
  <2> QED
    BY <1>1, <2>3, <2>4, <2>5, <2>6 DEF Next
<1>2. IInv /\ [Next]_vars => [Blamed]_vars
  BY <1>1
<1> QED
  BY <1>2, Invariant, PTL DEF Spec, OpensOnFailure

-----------------------------------------------------------------------------
(* How long a call may take.                                               *)

\* The steps a call has left at most: three for each attempt.
StepsLeft(c) ==
    CASE call[c].pc = "ready"   -> 3 * (Limit(c) - call[c].attempt) + 3
      [] call[c].pc = "sent"    -> 3 * (Limit(c) - call[c].attempt) + 2
      [] call[c].pc = "backoff" -> 3 * (Limit(c) - call[c].attempt) + 1
      [] OTHER -> 0

\* A step touches one caller's call, but for the breaker's interest in others.
LEMMA OthersKept ==
    ASSUME TypeOK, NEW c \in Caller, NEW d \in Caller \ {c},
           \/ \E retryable \in BOOLEAN : Begin(c, retryable)
           \/ Reject(c) \/ CallStep(c) \/ ContextDone(c) \/ Return(c)
    PROVE  /\ call'[d].pc = call[d].pc /\ call'[d].retryable = call[d].retryable
           /\ call'[d].attempt = call[d].attempt
<1>1. call[d] \in CallType
  BY DEF TypeOK
<1>2. ASSUME call'[d] = call[d] \/ call'[d] = [call[d] EXCEPT !.fresh = @ /\ breaker'.state = breaker.state]
      PROVE  /\ call'[d].pc = call[d].pc /\ call'[d].retryable = call[d].retryable
             /\ call'[d].attempt = call[d].attempt
  BY <1>1, <1>2 DEF CallType
<1>3. ASSUME NEW result, End(c, result)
      PROVE  call'[d] = [call[d] EXCEPT !.fresh = @ /\ breaker'.state = breaker.state]
  BY <1>3 DEF End, Watched, TypeOK
<1>4. CASE BadPath(c) \/ Answer(c) \/ BackoffCancelled(c)
  <2>1. (\E result : End(c, result)) \/ (\E answer : BackOff(c, answer))
    BY <1>4 DEF BadPath, Answer, BackoffCancelled
  <2>2. ASSUME NEW answer, BackOff(c, answer) PROVE call'[d] = call[d]
    BY <2>2 DEF BackOff, TypeOK
  <2> QED
    BY <1>2, <1>3, <2>1, <2>2
<1>5. CASE Send(c) \/ BackoffElapsed(c) \/ Reject(c) \/ ContextDone(c) \/ Return(c)
  <2>1. call'[d] = call[d]
    BY <1>5 DEF Send, BackoffElapsed, Reject, ContextDone, Return, TypeOK
  <2> QED
    BY <1>2, <2>1
<1>6. ASSUME NEW retryable \in BOOLEAN, Begin(c, retryable) PROVE call'[d] = call[d]
  BY <1>6 DEF Begin, TypeOK
<1> QED
  BY <1>2, <1>4, <1>5, <1>6 DEF CallStep

\* Every step of a call under way brings it closer to its end, and nothing
\* sets it back, neither its context nor the breaker nor another call: it ends
\* after at most three steps for each attempt of the policy (doWithRetry,
\* retryInterceptor).
THEOREM EndNears ==
    Spec => [][\A c \in Caller :
                 /\ StepsLeft(c) \in 0..(3 * MaxAttempts)
                 /\ CallStep(c) => StepsLeft(c)' < StepsLeft(c)
                 /\ StepsLeft(c) > 0 /\ ~ CallStep(c) => StepsLeft(c)' = StepsLeft(c)]_vars
<1> DEFINE Nearing == \A c \in Caller :
                        /\ StepsLeft(c) \in 0..(3 * MaxAttempts)
                        /\ CallStep(c) => StepsLeft(c)' < StepsLeft(c)
                        /\ StepsLeft(c) > 0 /\ ~ CallStep(c) => StepsLeft(c)' = StepsLeft(c)
<1>1. IInv /\ [Next]_vars => [Nearing]_vars
  <2> SUFFICES ASSUME IInv, [Next]_vars, NEW c \in Caller
               PROVE  /\ StepsLeft(c) \in 0..(3 * MaxAttempts)
                      /\ CallStep(c) => StepsLeft(c)' < StepsLeft(c)
                      /\ StepsLeft(c) > 0 /\ ~ CallStep(c) => StepsLeft(c)' = StepsLeft(c)
    OBVIOUS
  <2>1. TypeOK /\ Counted(c) /\ call[c] \in CallType /\ MaxAttempts \in 1..5
    BY DEF IInv, TypeOK
  <2>2. Limit(c) \in 1..MaxAttempts
    BY <2>1 DEF Limit
  <2>3. StepsLeft(c) \in 0..(3 * MaxAttempts)
    BY <2>1, <2>2 DEF StepsLeft, Counted
  <2>4. ASSUME NEW result, End(c, result), call[c].pc \in {"ready", "sent", "backoff"}
        PROVE  StepsLeft(c)' < StepsLeft(c)
    <3>1. call'[c].pc = "done"
      <4>1. call'[c] = [[call[c] EXCEPT !.pc = "done", !.result = result,
                 !.bodies = @ + IF kind = "http" /\ result \in {"success", "retryable"} THEN 1 ELSE 0]
                 EXCEPT !.fresh = @ /\ breaker'.state = breaker.state]
        BY <2>1, <2>4 DEF End, Watched, TypeOK
      <4> QED
        BY <2>1, <4>1 DEF CallType
    <3>2. StepsLeft(c)' = 0 /\ StepsLeft(c) > 0
      BY <2>1, <2>2, <2>4, <3>1 DEF StepsLeft, Counted
    <3> QED
      BY <2>3, <3>2
  <2>5. ASSUME CallStep(c) PROVE StepsLeft(c)' < StepsLeft(c)
    <3>1. CASE BadPath(c)
      BY <2>4, <3>1 DEF BadPath
    <3>2. CASE Send(c)
      BY <2>1, <2>2, <3>2 DEF Send, StepsLeft, Limit, TypeOK, CallType, Counted
    <3>3. CASE Answer(c)
      <4>1. PICK answer \in Answers(c) :
              \/ call[c].attempt < Limit(c) /\ BackOff(c, answer)
              \/ End(c, answer)
        BY <3>3 DEF Answer
      <4>2. CASE End(c, answer)
        BY <2>4, <3>3, <4>2 DEF Answer
      <4>3. CASE BackOff(c, answer)
        BY <2>1, <2>2, <3>3, <4>3 DEF Answer, BackOff, StepsLeft, Limit, TypeOK, CallType, Counted
      <4> QED
        BY <4>1, <4>2, <4>3
    <3>4. CASE BackoffElapsed(c)
      BY <2>1, <2>2, <3>4 DEF BackoffElapsed, StepsLeft, Limit, TypeOK, CallType, Counted
    <3>5. CASE BackoffCancelled(c)
      BY <2>4, <3>5 DEF BackoffCancelled
    <3> QED
      BY <2>5, <3>1, <3>2, <3>3, <3>4, <3>5 DEF CallStep
  <2>6. ASSUME call'[c].pc = call[c].pc, call'[c].retryable = call[c].retryable,
               call'[c].attempt = call[c].attempt
        PROVE  StepsLeft(c)' = StepsLeft(c)
    BY <2>6 DEF StepsLeft, Limit
  <2>7. ASSUME NEW d \in Caller \ {c},
               \/ \E retryable \in BOOLEAN : Begin(d, retryable)
               \/ Reject(d) \/ CallStep(d) \/ ContextDone(d) \/ Return(d)
        PROVE  StepsLeft(c)' = StepsLeft(c)
    BY <2>1, <2>6, <2>7, OthersKept
  <2>8. ASSUME OpenTimeout PROVE StepsLeft(c)' = StepsLeft(c)
    <3>1. call'[c] = [call[c] EXCEPT !.fresh = FALSE]
      BY <2>1, <2>8 DEF OpenTimeout, In, Watched, CallType
    <3> QED
      BY <2>1, <2>6, <3>1 DEF CallType
  <2>9. ASSUME ContextDone(c) PROVE StepsLeft(c)' = StepsLeft(c)
    <3>1. PICK why : call' = [call EXCEPT ![c].ctx = why]
      BY <2>9 DEF ContextDone
    <3>2. call'[c] = [call[c] EXCEPT !.ctx = why]
      BY <2>1, <3>1 DEF TypeOK
    <3> QED
      BY <2>1, <2>6, <3>2 DEF CallType
  <2>10. ASSUME \/ \E retryable \in BOOLEAN : Begin(c, retryable)
                \/ Reject(c) \/ Return(c)
         PROVE  StepsLeft(c) = 0
    BY <2>10 DEF Begin, Reject, Return, StepsLeft
  <2>11. ASSUME UNCHANGED vars PROVE StepsLeft(c)' = StepsLeft(c)
    BY <2>6, <2>11 DEF vars
  <2>12. ASSUME StepsLeft(c) > 0, ~ CallStep(c) PROVE StepsLeft(c)' = StepsLeft(c)
    <3>1. ~ (StepsLeft(c) = 0)
      BY <2>3, <2>12
    <3> QED
      BY <2>7, <2>8, <2>9, <2>10, <2>11, <2>12, <3>1 DEF Next
  <2> QED
    BY <2>3, <2>5, <2>12
<1> QED
  BY <1>1, Invariant, PTL DEF Spec
=============================================================================
