-------------------------- MODULE ProjectionProofs --------------------------
(***************************************************************************)
(* Proofs about Projection, for any number of handlers, batch callers,     *)
(* events, batches, deliveries and retries.  The inductive invariant IInv  *)
(* adds to the properties what a handler and an engine call know on the    *)
(* way from the index write to the acknowledgement.                        *)
(***************************************************************************)
EXTENDS Projection, SequenceTheorems, TLAPS

\* A call under way points at an item of its batch.
CallInv ==
    \A c \in Client :
        call[c].state = "busy" => call[c].position \in 1..Len(call[c].writes)

\* What a handler's stage says about its event and its engine call.
JobOK(w) ==
    /\ job[w].stage # "idle" => job[w].event \in Event
    /\ job[w].stage = "applying" =>
          /\ job[w].event \in AcceptedEvent
          /\ call[w].writes = <<EventWrite(job[w].event)>>
    /\ job[w].stage = "ok" =>
          /\ job[w].event \in AcceptedEvent
          /\ Reached(EventWrite(job[w].event))

\* The index holds nothing but what an accepted event or batch wrote under
\* that id: no version with another's body.
OnlyAcceptedContent ==
    \A id \in Id :
        \/ index[id] = Absent
        \/ \E w \in Write : w.id = id /\ index[id] = Entry(w)

JobInv == \A w \in Worker : JobOK(w)

IInv ==
    /\ TypeOK
    /\ CallInv
    /\ JobInv
    /\ PrefixReached
    /\ SettledReached
    /\ OnlyAcceptedContent

-----------------------------------------------------------------------------
(* The write an attempt carries is one of Write.                           *)
LEMMA CurrentInWrite ==
    ASSUME TypeOK, CallInv, NEW c \in Client, call[c].state = "busy"
    PROVE  /\ Current(c) \in Write
           /\ call[c].position \in DOMAIN call[c].writes
  BY DEF TypeOK, CallType, CallInv, Current

(* Applying a write to the index keeps its type, never lowers a version,   *)
(* reaches the write and stores nothing but that write.                    *)
LEMMA AppliedFacts ==
    ASSUME TypeOK, NEW w \in Write
    PROVE  /\ Applied(w) \in [Id -> EntryType]
           /\ \A id \in Id : Applied(w)[id].version >= index[id].version
           /\ Applied(w)[w.id].version >= w.version
           /\ \A id \in Id : Applied(w)[id] = index[id] \/ (w.id = id /\ Applied(w)[id] = Entry(w))
<1>1. w.id \in Id /\ w.version \in Nat
  BY WriteAssumption
<1>2. Entry(w) \in EntryType
  BY <1>1 DEF Entry, EntryType
<1>3. CASE Supersedes(w, index[w.id])
  BY <1>1, <1>2, <1>3 DEF Applied, TypeOK, EntryType, Supersedes, Entry
<1>4. CASE ~ Supersedes(w, index[w.id])
  BY <1>1, <1>4 DEF Applied, TypeOK, EntryType, Supersedes
<1> QED
  BY <1>3, <1>4

(* Every step of the engine and of OpenSearch changes the index by one     *)
(* accepted write or by dropping a deletion marker; nothing else does.     *)
IndexStep ==
    /\ collected \subseteq collected'
    /\ \/ /\ index' = index
          /\ collected' = collected
       \/ \E w \in Write : /\ index' = Applied(w)
                           /\ collected' = collected
       \/ \E id \in Id : /\ index[id].body = NoDocument
                         /\ index' = [index EXCEPT ![id] = Absent]
                         /\ collected' = collected \cup {id}

LEMMA NextIsIndexStep ==
    ASSUME TypeOK, CallInv, [Next]_vars
    PROVE  IndexStep
<1>1. ASSUME UNCHANGED <<index, collected>> PROVE IndexStep
  BY <1>1 DEF IndexStep
<1>2. ASSUME NEW w \in Worker, HandlerStep(w) \/ Crash(w) PROVE IndexStep
  BY <1>1, <1>2 DEF HandlerStep, RefuseEarly, SkipCompleted, Claim, RefuseEvent, Complete,
                    GiveUp, Ack, NoAck, Crash, Vanish
<1>3. ASSUME NEW e \in Event, StreamStep(e) \/ CleanInbox(e) PROVE IndexStep
  BY <1>1, <1>3 DEF StreamStep, Deliver, Exhaust, CleanInbox
<1>4. ASSUME NEW c \in Caller, BatchReturn(c) \/ BatchCrash(c) PROVE IndexStep
  BY <1>1, <1>4 DEF BatchReturn, BatchCrash, Vanish
<1>5. ASSUME NEW c \in Caller, NEW b \in Batch, BatchCall(c, b) PROVE IndexStep
  BY <1>1, <1>5 DEF BatchCall
<1>6. ASSUME NEW c \in Client, EngineMove(c) PROVE IndexStep
  <2>1. CASE Answer(c)
    BY <2>1, CurrentInWrite DEF Answer, IndexStep
  <2>2. CASE Retry(c) \/ Fail(c)
    BY <2>2, <1>1 DEF Retry, Fail, GiveUpAttempt
  <2> QED
    BY <1>6, <2>1, <2>2 DEF EngineMove, EngineStep
<1>7. CASE OpenSearchMove
  BY <1>7 DEF OpenSearchMove, OpenSearchStep, ApplyOrphan, CollectDeleted, IndexStep
<1>8. CASE UNCHANGED vars
  BY <1>1, <1>8 DEF vars
<1> QED
  BY <1>2, <1>3, <1>4, <1>5, <1>6, <1>7, <1>8 DEF Next

(* What the index has reached it does not leave.  ReachedAfter(w) says     *)
(* that the index has reached w in the next state.                         *)
ReachedAfter(write) ==
    write.id \in collected' \/ index'[write.id].version >= write.version

LEMMA ReachedStable ==
    ASSUME TypeOK, IndexStep, NEW w \in Write, Reached(w)
    PROVE  ReachedAfter(w)
<1>0. w.id \in Id /\ w.version \in Nat \ {0}
  BY WriteAssumption
<1>1. CASE index' = index /\ collected' = collected
  BY <1>1 DEF Reached, ReachedAfter
<1>2. ASSUME NEW x \in Write, index' = Applied(x), collected' = collected
      PROVE  ReachedAfter(w)
  BY <1>0, <1>2, AppliedFacts DEF Reached, ReachedAfter, TypeOK, EntryType
<1>3. ASSUME NEW id \in Id, index' = [index EXCEPT ![id] = Absent],
             collected' = collected \cup {id}
      PROVE  ReachedAfter(w)
  BY <1>0, <1>3 DEF Reached, ReachedAfter, TypeOK
<1> QED
  BY <1>1, <1>2, <1>3 DEF IndexStep

-----------------------------------------------------------------------------
(* The records that steps of a handler and of an engine call put in place. *)
LEMMA StageType ==
    ASSUME TypeOK, NEW w \in Worker,
           NEW s \in {"idle", "received", "applying", "ok", "err"}
    PROVE  [job EXCEPT ![w].stage = s] \in [Worker -> JobType]
<1>1. job[w] \in JobType
  BY DEF TypeOK
<1>2. [job[w] EXCEPT !.stage = s] \in JobType
  BY <1>1 DEF JobType
<1> QED
  BY <1>2 DEF TypeOK

LEMMA CallTypes ==
    ASSUME TypeOK, NEW c \in Client
    PROVE  /\ NoCall \in CallType
           /\ \A writes \in Seq(Write) : AtItem(writes, 1) \in CallType
           /\ [call[c] EXCEPT !.state = "ok"] \in CallType
           /\ [call[c] EXCEPT !.state = "error"] \in CallType
           /\ AtItem(call[c].writes, call[c].position + 1) \in CallType
           /\ call[c].attempt < MaxRetries =>
                 [call[c] EXCEPT !.attempt = call[c].attempt + 1] \in CallType
<1>1. call[c] \in CallType
  BY DEF TypeOK
<1>2. NoCall \in CallType
  BY MaxRetriesAssumption DEF NoCall, CallType
<1>3. \A writes \in Seq(Write) : AtItem(writes, 1) \in CallType
  BY MaxRetriesAssumption DEF CallType, AtItem
<1>4. /\ [call[c] EXCEPT !.state = "ok"] \in CallType
      /\ [call[c] EXCEPT !.state = "error"] \in CallType
  BY <1>1 DEF CallType
<1>5. AtItem(call[c].writes, call[c].position + 1) \in CallType
  BY <1>1, MaxRetriesAssumption DEF CallType, AtItem
<1>6. call[c].attempt < MaxRetries =>
         [call[c] EXCEPT !.attempt = call[c].attempt + 1] \in CallType
  BY <1>1, MaxRetriesAssumption DEF CallType
<1> QED
  BY <1>2, <1>3, <1>4, <1>5, <1>6

(* Every step keeps the types.                                             *)
LEMMA TypeStep ==
    ASSUME TypeOK, CallInv, JobInv, [Next]_vars
    PROVE  TypeOK'
<1>1. index' \in [Id -> EntryType] /\ collected' \subseteq Id
  <2>1. IndexStep
    BY NextIsIndexStep
  <2>2. Absent \in EntryType
    BY DEF Absent, EntryType
  <2>3. CASE index' = index /\ collected' = collected
    BY <2>3 DEF TypeOK
  <2>4. ASSUME NEW w \in Write, index' = Applied(w), collected' = collected
        PROVE  index' \in [Id -> EntryType] /\ collected' \subseteq Id
    BY <2>4, AppliedFacts DEF TypeOK
  <2>5. ASSUME NEW id \in Id, index' = [index EXCEPT ![id] = Absent],
               collected' = collected \cup {id}
        PROVE  index' \in [Id -> EntryType] /\ collected' \subseteq Id
    BY <2>2, <2>5 DEF TypeOK
  <2> QED
    BY <2>1, <2>3, <2>4, <2>5 DEF IndexStep
<1>2. ASSUME NEW w \in Worker, HandlerStep(w) PROVE TypeOK'
  <2>0. w \in Client
    BY ClientAssumption
  <2>1. job[w].stage # "idle" => job[w].event \in Event
    BY DEF JobInv, JobOK
  <2>2. CASE Claim(w)
    <3>1. <<EventWrite(job[w].event)>> \in Seq(Write)
      BY <2>2, AcceptedWriteAssumption DEF Claim
    <3>2. call' \in [Client -> CallType]
      BY <2>0, <2>2, <3>1, CallTypes DEF Claim, Begin, TypeOK
    <3> QED
      BY <1>1, <2>2, <3>2, StageType DEF Claim, Stage, TypeOK
  <2>3. CASE RefuseEarly(w) \/ SkipCompleted(w)
    BY ZenonT(40), <1>1, <2>3, StageType DEF RefuseEarly, SkipCompleted, Stage, TypeOK
  <2>4. CASE RefuseEvent(w)
    BY ZenonT(40), <1>1, <2>4, StageType DEF RefuseEvent, Stage, TypeOK
  <2>5. CASE Complete(w) \/ GiveUp(w)
    <3>1. job' \in [Worker -> JobType]
      <4>1. job' = [job EXCEPT ![w].stage = "ok"] \/ job' = [job EXCEPT ![w].stage = "err"]
        BY <2>5 DEF Complete, GiveUp, Stage
      <4> QED
        BY <4>1, StageType
    <3>2. call' \in [Client -> CallType]
      BY <2>0, <2>5, CallTypes DEF Complete, GiveUp, TypeOK
    <3>3. inbox' \in [Event -> {"none", "processing", "failed", "completed"}]
      BY <2>1, <2>5 DEF Complete, GiveUp, TypeOK
    <3> QED
      BY <1>1, <2>5, <3>1, <3>2, <3>3 DEF Complete, GiveUp, TypeOK
  <2>6. CASE Ack(w) \/ NoAck(w)
    <3>1. NoJob \in JobType
      BY DEF NoJob, JobType
    <3> QED
      BY <1>1, <2>1, <2>6, <3>1 DEF Ack, NoAck, TypeOK
  <2> QED
    BY <1>2, <2>2, <2>3, <2>4, <2>5, <2>6 DEF HandlerStep
<1>3. ASSUME NEW w \in Worker, Crash(w) PROVE TypeOK'
  <2>0. w \in Client
    BY ClientAssumption
  <2>1. call[w].state = "busy" => Current(w) \in Write
    BY <2>0, CurrentInWrite
  <2>2. NoJob \in JobType
    BY DEF NoJob, JobType
  <2>3. NoCall \in CallType
    BY <2>0, CallTypes
  <2> QED
    BY <1>1, <1>3, <2>0, <2>1, <2>2, <2>3 DEF Crash, Vanish, TypeOK
<1>4. ASSUME NEW e \in Event, StreamStep(e) \/ CleanInbox(e) PROVE TypeOK'
  <2>1. CASE \E w \in Worker : Deliver(w, e)
    <3>1. [event |-> e, stage |-> "received"] \in JobType
      BY DEF JobType
    <3> QED
      BY <1>1, <2>1, <3>1, MaxDeliverAssumption DEF Deliver, TypeOK
  <2>2. CASE Exhaust(e) \/ CleanInbox(e)
    BY <1>1, <2>2 DEF Exhaust, CleanInbox, TypeOK
  <2> QED
    BY <1>4, <2>1, <2>2 DEF StreamStep
<1>5. ASSUME NEW c \in Caller, BatchReturn(c) \/ BatchCrash(c) PROVE TypeOK'
  <2>0. c \in Client
    BY ClientAssumption
  <2>1. call[c].state = "busy" => Current(c) \in Write
    BY <2>0, CurrentInWrite
  <2>2. NoCall \in CallType
    BY <2>0, CallTypes
  <2> QED
    BY <1>1, <1>5, <2>0, <2>1, <2>2 DEF BatchReturn, BatchCrash, Vanish, TypeOK
<1>6. ASSUME NEW c \in Caller, NEW b \in Batch, BatchCall(c, b) PROVE TypeOK'
  <2>0. c \in Client
    BY ClientAssumption
  <2>1. BatchWrites(b) \in Seq(Write)
    BY <1>6, AcceptedWriteAssumption DEF BatchCall
  <2> QED
    BY <1>1, <1>6, <2>0, <2>1, CallTypes DEF BatchCall, Begin, TypeOK
<1>7. ASSUME NEW c \in Client, EngineMove(c) PROVE TypeOK'
  <2>1. CASE Answer(c)
    <3>1. call' \in [Client -> CallType]
      BY <2>1, CallTypes DEF Answer, Proceed, TypeOK
    <3> QED
      BY <1>1, <1>7, <2>1, <3>1 DEF EngineMove, Answer, TypeOK
  <2>2. CASE Retry(c) \/ Fail(c)
    <3>1. Current(c) \in Write
      BY <2>2, CurrentInWrite DEF Retry, Fail, GiveUpAttempt
    <3>2. orphans' \subseteq Write
      BY <2>2, <3>1 DEF Retry, Fail, GiveUpAttempt, TypeOK
    <3>3. call' \in [Client -> CallType]
      BY <2>2, CallTypes DEF Retry, Fail, TypeOK
    <3> QED
      BY <1>1, <1>7, <3>2, <3>3 DEF EngineMove, TypeOK
  <2> QED
    BY <1>7, <2>1, <2>2 DEF EngineMove, EngineStep
<1>8. CASE OpenSearchMove
  BY <1>1, <1>8 DEF OpenSearchMove, OpenSearchStep, ApplyOrphan, CollectDeleted, TypeOK
<1>9. CASE UNCHANGED vars
  BY <1>9 DEF vars, TypeOK
<1> QED
  BY <1>2, <1>3, <1>4, <1>5, <1>6, <1>7, <1>8, <1>9 DEF Next

-----------------------------------------------------------------------------
(* Every step keeps what handlers and engine calls know.                   *)

(* A step replaces at most one call.                                       *)
LEMMA CallStep ==
    ASSUME TypeOK, CallInv, JobInv, PrefixReached, [Next]_vars
    PROVE  CallInv' /\ PrefixReached'
<1>0. IndexStep
  BY NextIsIndexStep
<1>1. \A c \in Client : \A i \in DOMAIN call[c].writes :
         i < call[c].position \/ call[c].state = "ok" => ReachedAfter(call[c].writes[i])
  BY <1>0, ReachedStable DEF PrefixReached, TypeOK, CallType
<1>2. CASE UNCHANGED call
  BY <1>1, <1>2 DEF CallInv, PrefixReached, Reached, ReachedAfter
<1>3. ASSUME NEW c \in Client, NEW k \in CallType, call' = [call EXCEPT ![c] = k],
             k.state = "busy" => k.position \in 1..Len(k.writes),
             \A i \in DOMAIN k.writes :
                i < k.position \/ k.state = "ok" => ReachedAfter(k.writes[i])
      PROVE  CallInv' /\ PrefixReached'
  <2>1. call'[c] = k /\ \A d \in Client \ {c} : call'[d] = call[d]
    BY <1>3 DEF TypeOK
  <2> QED
    BY <1>1, <1>3, <2>1 DEF CallInv, PrefixReached, Reached, ReachedAfter
<1>4. ASSUME NEW c \in Client, call' = [call EXCEPT ![c] = NoCall]
      PROVE  CallInv' /\ PrefixReached'
  <2>1. NoCall \in CallType
    BY CallTypes
  <2>2. NoCall.state = "idle" /\ DOMAIN NoCall.writes = {}
    BY DEF NoCall
  <2> QED
    BY <1>3, <1>4, <2>1, <2>2
<1>5. ASSUME NEW c \in Client, NEW writes \in Seq(Write), Len(writes) > 0, Begin(c, writes)
      PROVE  CallInv' /\ PrefixReached'
  <2> DEFINE k == AtItem(writes, 1)
  <2>1. k \in CallType /\ call' = [call EXCEPT ![c] = k]
    BY <1>5, CallTypes DEF Begin
  <2>2. k.state = "busy" /\ k.position = 1 /\ k.writes = writes
    BY DEF AtItem
  <2>3. k.position \in 1..Len(k.writes) /\ \A i \in DOMAIN k.writes : ~ (i < k.position)
    BY <1>5, <2>2
  <2> HIDE DEF k
  <2> QED
    BY <1>3, <2>1, <2>2, <2>3
<1>6. ASSUME NEW w \in Worker, HandlerStep(w) \/ Crash(w) PROVE CallInv' /\ PrefixReached'
  <2>0. w \in Client
    BY ClientAssumption
  <2>1. CASE Claim(w)
    <3>1. <<EventWrite(job[w].event)>> \in Seq(Write) /\ Len(<<EventWrite(job[w].event)>>) > 0
      BY <2>1, AcceptedWriteAssumption DEF Claim
    <3> QED
      BY <1>5, <2>0, <2>1, <3>1 DEF Claim
  <2>2. CASE Complete(w) \/ GiveUp(w) \/ Crash(w)
    BY <1>4, <2>0, <2>2 DEF Complete, GiveUp, Crash, Vanish
  <2>3. CASE RefuseEarly(w) \/ SkipCompleted(w) \/ RefuseEvent(w) \/ Ack(w) \/ NoAck(w)
    BY <1>2, <2>3 DEF RefuseEarly, SkipCompleted, RefuseEvent, Ack, NoAck
  <2> QED
    BY <1>6, <2>1, <2>2, <2>3 DEF HandlerStep
<1>7. ASSUME NEW e \in Event, StreamStep(e) \/ CleanInbox(e) PROVE CallInv' /\ PrefixReached'
  BY <1>2, <1>7 DEF StreamStep, Deliver, Exhaust, CleanInbox
<1>8. ASSUME NEW c \in Caller, BatchReturn(c) \/ BatchCrash(c) PROVE CallInv' /\ PrefixReached'
  BY <1>4, <1>8, ClientAssumption DEF BatchReturn, BatchCrash, Vanish
<1>9. ASSUME NEW c \in Caller, NEW b \in Batch, BatchCall(c, b)
      PROVE  CallInv' /\ PrefixReached'
  BY <1>5, <1>9, ClientAssumption, AcceptedWriteAssumption DEF BatchCall
<1>10. ASSUME NEW c \in Client, EngineMove(c) PROVE CallInv' /\ PrefixReached'
  <2>0. call[c] \in CallType
    BY DEF TypeOK
  <2>1. CASE Answer(c)
    <3>1. call[c].position \in DOMAIN call[c].writes /\ Current(c) \in Write
      BY <2>1, CurrentInWrite DEF Answer
    <3>2. ReachedAfter(call[c].writes[call[c].position])
      BY <2>1, <3>1, AppliedFacts DEF Answer, ReachedAfter, Current
    <3>3. CASE call[c].position = Len(call[c].writes)
      <4> DEFINE k == [call[c] EXCEPT !.state = "ok"]
      <4>1. k.state = "ok" /\ k.writes = call[c].writes
        BY <2>0 DEF CallType
      <4>2. \A i \in DOMAIN call[c].writes : i < call[c].position \/ i = call[c].position
        BY <2>0, <3>3 DEF CallType
      <4>3. k \in CallType /\ call' = [call EXCEPT ![c] = k]
        BY <2>1, <3>3, CallTypes DEF Answer, Proceed
      <4> QED
        BY <1>1, <1>3, <3>2, <4>1, <4>2, <4>3
    <3>4. CASE call[c].position # Len(call[c].writes)
      <4> DEFINE k == AtItem(call[c].writes, call[c].position + 1)
      <4>1. /\ k.state = "busy" /\ k.writes = call[c].writes
            /\ k.position = call[c].position + 1
        BY DEF AtItem
      <4>2. call[c].position + 1 \in 1..Len(call[c].writes)
        BY <2>0, <3>1, <3>4 DEF CallType
      <4>3. \A i \in DOMAIN call[c].writes :
               i < call[c].position + 1 => i < call[c].position \/ i = call[c].position
        BY <2>0 DEF CallType
      <4>4. k \in CallType /\ call' = [call EXCEPT ![c] = k]
        BY <2>1, <3>4, CallTypes DEF Answer, Proceed
      <4> HIDE DEF k
      <4> QED
        BY <1>1, <1>3, <3>2, <4>1, <4>2, <4>3, <4>4
    <3> QED
      BY <3>3, <3>4
  <2>2. CASE Retry(c)
    <3> DEFINE k == [call[c] EXCEPT !.attempt = call[c].attempt + 1]
    <3>1. k.position = call[c].position /\ k.writes = call[c].writes /\ k.state = call[c].state
      BY <2>0 DEF CallType
    <3>2. k \in CallType /\ call' = [call EXCEPT ![c] = k]
      BY <2>2, CallTypes DEF Retry
    <3>3. call[c].position \in 1..Len(call[c].writes)
      BY <2>2 DEF Retry, GiveUpAttempt, CallInv
    <3> HIDE DEF k
    <3> QED
      BY <1>1, <1>3, <3>1, <3>2, <3>3
  <2>3. CASE Fail(c)
    <3> DEFINE k == [call[c] EXCEPT !.state = "error"]
    <3>1. k.position = call[c].position /\ k.writes = call[c].writes /\ k.state = "error"
      BY <2>0 DEF CallType
    <3>2. k \in CallType /\ call' = [call EXCEPT ![c] = k]
      BY <2>3, CallTypes DEF Fail
    <3> HIDE DEF k
    <3> QED
      BY <1>1, <1>3, <3>1, <3>2
  <2> QED
    BY <1>10, <2>1, <2>2, <2>3 DEF EngineMove, EngineStep
<1>11. CASE OpenSearchMove
  BY <1>2, <1>11 DEF OpenSearchMove, OpenSearchStep, ApplyOrphan, CollectDeleted
<1>12. CASE UNCHANGED vars
  BY <1>2, <1>12 DEF vars
<1> QED
  BY <1>6, <1>7, <1>8, <1>9, <1>10, <1>11, <1>12 DEF Next

(* A step replaces at most one job.                                        *)
LEMMA JobStep ==
    ASSUME IInv, [Next]_vars
    PROVE  JobInv'
<1> USE DEF IInv
<1>0. IndexStep
  BY NextIsIndexStep
<1>1. \A e \in AcceptedEvent : Reached(EventWrite(e)) => ReachedAfter(EventWrite(e))
  BY <1>0, ReachedStable, AcceptedWriteAssumption
<1>2. ASSUME NEW w \in Worker, call'[w].writes = call[w].writes, job'[w] = job[w]
      PROVE  JobOK(w)'
  BY <1>1, <1>2 DEF JobInv, JobOK, Reached, ReachedAfter
<1>3. ASSUME NEW w \in Worker, HandlerStep(w) \/ Crash(w) PROVE JobInv'
  <2>0. w \in Client /\ job[w] \in JobType
    BY ClientAssumption DEF TypeOK
  <2>1. ASSUME NEW v \in Worker, v # w PROVE JobOK(v)'
    <3>1. job'[v] = job[v] /\ call'[v] = call[v]
      BY <1>3, <2>1, ClientAssumption
         DEF HandlerStep, RefuseEarly, SkipCompleted, Claim, RefuseEvent, Complete, GiveUp, Ack,
             NoAck, Crash, Vanish, Begin, Stage, TypeOK
    <3> QED
      BY <1>2, <3>1
  <2>2. job[w].stage # "idle" => job[w].event \in Event
    BY DEF JobInv, JobOK
  <2>3. ASSUME NEW s \in {"idle", "received", "applying", "ok", "err"}, Stage(w, s)
        PROVE  job'[w].stage = s /\ job'[w].event = job[w].event
    BY <2>0, <2>3 DEF Stage, TypeOK, JobType
  <2>4. CASE RefuseEarly(w) \/ RefuseEvent(w) \/ GiveUp(w)
    <3>1. Stage(w, "err") /\ job[w].stage # "idle"
      BY <2>4 DEF RefuseEarly, RefuseEvent, GiveUp
    <3> QED
      BY <2>1, <2>2, <2>3, <3>1 DEF JobInv, JobOK
  <2>5. CASE SkipCompleted(w)
    <3>1. job[w].event \in AcceptedEvent /\ Reached(EventWrite(job[w].event))
      BY <2>2, <2>5 DEF SkipCompleted, SettledReached
    <3>2. job'[w].stage = "ok" /\ job'[w].event = job[w].event
      BY <2>3, <2>5 DEF SkipCompleted
    <3> QED
      BY <1>1, <2>1, <2>2, <2>5, <3>1, <3>2 DEF SkipCompleted, JobInv, JobOK, Reached, ReachedAfter
  <2>6. CASE Claim(w)
    <3>1. job'[w].stage = "applying" /\ job'[w].event = job[w].event
      BY <2>3, <2>6 DEF Claim
    <3>2. call'[w].writes = <<EventWrite(job[w].event)>>
      BY <2>0, <2>6 DEF Claim, Begin, AtItem, TypeOK
    <3> QED
      BY <2>1, <2>2, <2>6, <3>1, <3>2 DEF Claim, JobInv, JobOK
  <2>7. CASE Complete(w)
    <3>1. job[w].event \in AcceptedEvent /\ call[w].writes = <<EventWrite(job[w].event)>>
      BY <2>7 DEF Complete, JobInv, JobOK
    <3>2. Reached(EventWrite(job[w].event))
      BY <2>0, <2>7, <3>1 DEF Complete, PrefixReached
    <3>3. job'[w].stage = "ok" /\ job'[w].event = job[w].event
      BY <2>3, <2>7 DEF Complete
    <3> QED
      BY <1>1, <2>1, <2>2, <2>7, <3>1, <3>2, <3>3 DEF Complete, JobInv, JobOK, Reached, ReachedAfter
  <2>8. CASE Ack(w) \/ NoAck(w) \/ Crash(w)
    <3>1. job'[w] = NoJob
      BY <2>8 DEF Ack, NoAck, Crash, TypeOK
    <3> QED
      BY <2>1, <3>1 DEF JobInv, JobOK, NoJob
  <2> QED
    BY <1>3, <2>4, <2>5, <2>6, <2>7, <2>8 DEF HandlerStep
<1>4. ASSUME NEW e \in Event, StreamStep(e) \/ CleanInbox(e) PROVE JobInv'
  <2>1. CASE \E w \in Worker : Deliver(w, e)
    <3>1. PICK w \in Worker : Deliver(w, e)
      BY <2>1
    <3>2. job'[w] = [event |-> e, stage |-> "received"]
      BY <3>1 DEF Deliver, TypeOK
    <3>3. ASSUME NEW v \in Worker, v # w PROVE JobOK(v)'
      BY <1>2, <3>1, <3>3 DEF Deliver, TypeOK
    <3> QED
      BY <3>2, <3>3 DEF JobInv, JobOK
  <2>2. CASE Exhaust(e) \/ CleanInbox(e)
    BY <1>2, <2>2 DEF Exhaust, CleanInbox, JobInv
  <2> QED
    BY <1>4, <2>1, <2>2 DEF StreamStep
<1>5. ASSUME NEW c \in Caller, BatchReturn(c) \/ BatchCrash(c) \/ \E b \in Batch : BatchCall(c, b)
      PROVE  JobInv'
  <2>1. \A w \in Worker : call'[w] = call[w] /\ job' = job
    BY <1>5, ClientAssumption DEF BatchReturn, BatchCrash, Vanish, BatchCall, Begin, TypeOK
  <2> QED
    BY <1>2, <2>1 DEF JobInv
<1>6. ASSUME NEW c \in Client, EngineMove(c) PROVE JobInv'
  <2>0. call[c] \in CallType
    BY DEF TypeOK
  <2>1. call'[c].writes = call[c].writes
    <3>1. CASE Answer(c)
      BY <2>0, <3>1 DEF Answer, Proceed, AtItem, TypeOK, CallType
    <3>2. CASE Retry(c) \/ Fail(c)
      BY <2>0, <3>2 DEF Retry, Fail, TypeOK, CallType
    <3> QED
      BY <1>6, <3>1, <3>2 DEF EngineMove, EngineStep
  <2>2. \A d \in Client \ {c} : call'[d] = call[d]
    BY <1>6 DEF EngineMove, EngineStep, Answer, Proceed, Retry, Fail, TypeOK
  <2> QED
    BY <1>2, <1>6, <2>1, <2>2, ClientAssumption DEF EngineMove, JobInv
<1>7. CASE OpenSearchMove \/ UNCHANGED vars
  BY <1>2, <1>7 DEF OpenSearchMove, OpenSearchStep, ApplyOrphan, CollectDeleted, vars, JobInv
<1> QED
  BY <1>3, <1>4, <1>5, <1>6, <1>7 DEF Next

(* Only Complete and Ack settle an event, and both know it is reached.     *)
LEMMA SettledStep ==
    ASSUME IInv, [Next]_vars
    PROVE  SettledReached'
<1> USE DEF IInv
<1>0. IndexStep
  BY NextIsIndexStep
<1>1. \A e \in AcceptedEvent : Reached(EventWrite(e)) => ReachedAfter(EventWrite(e))
  BY <1>0, ReachedStable, AcceptedWriteAssumption
<1>2. ASSUME \A e \in Event : fate'[e] = "acked" \/ inbox'[e] = "completed" =>
                  \/ fate[e] = "acked" \/ inbox[e] = "completed"
                  \/ e \in AcceptedEvent /\ Reached(EventWrite(e))
      PROVE  SettledReached'
  BY <1>1, <1>2 DEF SettledReached, Reached, ReachedAfter
<1>3. ASSUME NEW w \in Worker, HandlerStep(w) \/ Crash(w) PROVE SettledReached'
  <2>0. job[w].stage # "idle" => job[w].event \in Event
    BY DEF JobInv, JobOK
  <2>1. CASE Complete(w)
    <3>1. job[w].event \in AcceptedEvent /\ call[w].writes = <<EventWrite(job[w].event)>>
      BY <2>1 DEF Complete, JobInv, JobOK
    <3>2. Reached(EventWrite(job[w].event))
      BY <2>1, <3>1, ClientAssumption DEF Complete, PrefixReached
    <3> QED
      BY <1>2, <2>1, <3>1, <3>2 DEF Complete, TypeOK
  <2>2. CASE Ack(w)
    BY <1>2, <2>2 DEF Ack, JobInv, JobOK, TypeOK
  <2>3. CASE GiveUp(w) \/ Claim(w) \/ RefuseEvent(w)
    <3>1. \A e \in Event : inbox'[e] = "completed" => inbox[e] = "completed"
      BY <2>0, <2>3 DEF GiveUp, Claim, RefuseEvent, TypeOK
    <3> QED
      BY <1>2, <2>3, <3>1 DEF GiveUp, Claim, RefuseEvent
  <2>4. CASE RefuseEarly(w) \/ SkipCompleted(w) \/ NoAck(w) \/ Crash(w)
    BY <1>2, <2>4 DEF RefuseEarly, SkipCompleted, NoAck, Crash
  <2> QED
    BY <1>3, <2>1, <2>2, <2>3, <2>4 DEF HandlerStep
<1>4. ASSUME NEW e \in Event, StreamStep(e) \/ CleanInbox(e) PROVE SettledReached'
  BY <1>2, <1>4 DEF StreamStep, Deliver, Exhaust, CleanInbox, TypeOK
<1>5. ASSUME NEW c \in Caller, BatchReturn(c) \/ BatchCrash(c) \/ \E b \in Batch : BatchCall(c, b)
      PROVE  SettledReached'
  BY <1>2, <1>5 DEF BatchReturn, BatchCrash, BatchCall
<1>6. ASSUME NEW c \in Client, EngineMove(c) PROVE SettledReached'
  BY <1>2, <1>6 DEF EngineMove
<1>7. CASE OpenSearchMove \/ UNCHANGED vars
  BY <1>2, <1>7 DEF OpenSearchMove, vars
<1> QED
  BY <1>3, <1>4, <1>5, <1>6, <1>7 DEF Next

(* The index changes only by accepted writes and dropped markers.          *)
LEMMA ContentStep ==
    ASSUME TypeOK, IndexStep, OnlyAcceptedContent
    PROVE  OnlyAcceptedContent'
<1>1. ASSUME NEW w \in Write, index' = Applied(w) PROVE OnlyAcceptedContent'
  BY <1>1, AppliedFacts DEF OnlyAcceptedContent
<1>2. ASSUME NEW id \in Id, index' = [index EXCEPT ![id] = Absent] PROVE OnlyAcceptedContent'
  BY <1>2 DEF OnlyAcceptedContent, TypeOK
<1>3. CASE index' = index
  BY <1>3 DEF OnlyAcceptedContent
<1> QED
  BY <1>1, <1>2, <1>3 DEF IndexStep

-----------------------------------------------------------------------------
(* IInv is an inductive invariant of the projection.                       *)
THEOREM InductiveInvariant == Spec => []IInv
<1>1. Init => IInv
  <2> SUFFICES ASSUME Init PROVE IInv
    OBVIOUS
  <2> USE DEF Init, StoreInit
  <2>1. Absent \in EntryType /\ NoJob \in JobType
    BY DEF Absent, EntryType, NoJob, JobType
  <2>2. NoCall \in CallType
    BY MaxRetriesAssumption DEF NoCall, CallType
  <2>3. TypeOK
    BY <2>1, <2>2, MaxDeliverAssumption DEF TypeOK
  <2>4. CallInv /\ PrefixReached
    BY DEF CallInv, PrefixReached, NoCall
  <2>5. JobInv
    BY DEF JobInv, JobOK, NoJob
  <2> QED
    BY <2>3, <2>4, <2>5 DEF IInv, SettledReached, OnlyAcceptedContent
<1>2. IInv /\ [Next]_vars => IInv'
  BY TypeStep, CallStep, JobStep, SettledStep, ContentStep, NextIsIndexStep DEF IInv
<1> QED
  BY <1>1, <1>2, PTL DEF Spec

(* Types, for every number of handlers, callers and events.                *)
THEOREM TypeCorrect == Spec => []TypeOK
<1>1. IInv => TypeOK
  BY DEF IInv
<1> QED
  BY <1>1, InductiveInvariant, PTL

(* An acknowledged or completed event was acceptable and the index has     *)
(* reached it: search_projection.go acknowledges only after the index      *)
(* write, and neither crashes nor late requests undo that.                 *)
THEOREM SettledEventsReached == Spec => []SettledReached
<1>1. IInv => SettledReached
  BY DEF IInv
<1> QED
  BY <1>1, InductiveInvariant, PTL

(* A batch whose call returned nil is reached in full, a batch under way   *)
(* or failed up to its current item (the loops of Upsert and Delete).      *)
THEOREM BatchPrefixReached == Spec => []PrefixReached
<1>1. IInv => PrefixReached
  BY DEF IInv
<1> QED
  BY <1>1, InductiveInvariant, PTL

(* What the checks of BatchUpsert let through is a sound document, sent as *)
(* an event or in a batch, and the write made of it carries it whole.      *)
LEMMA EventWriteSound ==
    ASSUME NEW e \in AcceptedEvent, EventWrite(e).body # NoDocument
    PROVE  /\ SoundDocument(EventWrite(e).body)
           /\ EventWrite(e).id = IdOf(EventWrite(e).body)
           /\ EventWrite(e).version = EventWrite(e).body.sourceVersion
<1> DEFINE document == Envelope[e].document
<1>1. SchemaSupported(Envelope[e]) /\ EventAccepts(Envelope[e]) /\ e \in Event
  BY DEF AcceptedEvent
<1>2. /\ EventBatch(Envelope[e]).items = <<document>>
      /\ EventBatch(Envelope[e]).operation =
            IF Envelope[e].eventType = "upserted" THEN "upsert" ELSE "delete"
  BY DEF EventBatch
<1>3. EventWrite(e) = IF EventBatch(Envelope[e]).operation = "upsert"
                      THEN UpsertWrite(document) ELSE DeleteWrite(document)
  BY <1>2 DEF EventWrite, BatchWrites
<1>4. Envelope[e].eventType = "upserted" /\ EventWrite(e) = UpsertWrite(document)
  BY <1>2, <1>3 DEF DeleteWrite
<1>5. /\ EventWrite(e).body = document
      /\ EventWrite(e).id = IdOf(document)
      /\ EventWrite(e).version = document.sourceVersion
  BY <1>4 DEF UpsertWrite
<1>6. CompleteDocument(document) /\ ValidVisibility(document)
  BY <1>1, <1>2, <1>4 DEF EventAccepts, BatchAccepts, UpsertAccepts
<1>7. Sent(document)
  BY <1>1, <1>4 DEF Sent, SchemaSupported, EventAccepts
<1> QED
  BY <1>5, <1>6, <1>7 DEF SoundDocument, CompleteDocument, CompleteKey, ValidVisibility

(* The same of the items of a batch RPC.                                   *)
LEMMA BatchWriteSound ==
    ASSUME NEW b \in AcceptedBatch, NEW i \in DOMAIN b.items, BatchWrites(b)[i].body # NoDocument
    PROVE  /\ SoundDocument(BatchWrites(b)[i].body)
           /\ BatchWrites(b)[i].id = IdOf(BatchWrites(b)[i].body)
           /\ BatchWrites(b)[i].version = BatchWrites(b)[i].body.sourceVersion
<1>1. BatchAccepts(b) /\ b \in Batch
  BY DEF AcceptedBatch
<1>2. BatchWrites(b)[i] = IF b.operation = "upsert"
                          THEN UpsertWrite(b.items[i]) ELSE DeleteWrite(b.items[i])
  BY DEF BatchWrites
<1>3. b.operation = "upsert" /\ BatchWrites(b)[i] = UpsertWrite(b.items[i])
  BY <1>2 DEF DeleteWrite
<1>4. /\ BatchWrites(b)[i].body = b.items[i]
      /\ BatchWrites(b)[i].id = IdOf(b.items[i])
      /\ BatchWrites(b)[i].version = b.items[i].sourceVersion
  BY <1>3 DEF UpsertWrite
<1>5. CompleteDocument(b.items[i]) /\ ValidVisibility(b.items[i])
  BY <1>1, <1>3 DEF BatchAccepts, UpsertAccepts
<1>6. Sent(b.items[i])
  BY <1>1 DEF Sent
<1> QED
  BY <1>4, <1>5, <1>6 DEF SoundDocument, CompleteDocument, CompleteKey, ValidVisibility

(* A document the index shows was sent by an owner and passed the checks   *)
(* of BatchUpsert and applySearchEvent.                                    *)
THEOREM ContentSound == Spec => []IndexedSound
<1>1. IInv => IndexedSound
  <2> SUFFICES ASSUME IInv, NEW id \in Id, index[id].body # NoDocument
               PROVE  /\ SoundDocument(index[id].body)
                      /\ id = IdOf(index[id].body)
                      /\ index[id].version = index[id].body.sourceVersion
    BY DEF IndexedSound
  <2>1. PICK w \in Write : w.id = id /\ index[id] = Entry(w)
    BY DEF IInv, OnlyAcceptedContent, Absent
  <2>2. index[id].body = w.body /\ index[id].version = w.version
    BY <2>1 DEF Entry
  <2>3. /\ SoundDocument(w.body)
        /\ w.id = IdOf(w.body)
        /\ w.version = w.body.sourceVersion
    BY <2>2, AcceptedWriteAssumption, EventWriteSound, BatchWriteSound
  <2> QED
    BY <2>1, <2>2, <2>3
<1> QED
  BY <1>1, InductiveInvariant, PTL

(* Once the newest event of a record is acknowledged the index shows its   *)
(* version, whatever the order of the others.                              *)
THEOREM Convergence == Spec => []Converged
<1>1. IInv => Converged
  <2> SUFFICES ASSUME IInv, NEW e \in AcceptedEvent, fate[e] = "acked",
                      Newest(EventWrite(e)), EventWrite(e).id \notin collected
               PROVE  Shown(EventWrite(e))
    BY DEF Converged
  <2>1. EventWrite(e) \in Write /\ e \in Event
    BY AcceptedWriteAssumption DEF AcceptedEvent
  <2>2. EventWrite(e).id \in Id /\ EventWrite(e).version \in Nat \ {0}
    BY <2>1, WriteAssumption
  <2>3. index[EventWrite(e).id].version >= EventWrite(e).version
    BY <2>1 DEF IInv, SettledReached, Reached
  <2>4. index[EventWrite(e).id] # Absent
    BY <2>2, <2>3 DEF Absent
  <2>5. PICK w \in Write : w.id = EventWrite(e).id /\ index[EventWrite(e).id] = Entry(w)
    BY <2>2, <2>4 DEF IInv, OnlyAcceptedContent
  <2>6. w.version <= EventWrite(e).version /\ w.version >= EventWrite(e).version
    BY <2>3, <2>5 DEF Newest, Entry
  <2>7. w.version = EventWrite(e).version
    BY <2>2, <2>6, WriteAssumption
  <2> QED
    BY <2>5, <2>7 DEF Shown
<1> QED
  BY <1>1, InductiveInvariant, PTL

-----------------------------------------------------------------------------
(* Steps that leave the stream's knowledge alone confirm nothing.          *)
LEMMA ConfirmedKept ==
    ASSUME fate' = fate
    PROVE  Confirmed' = Confirmed
  BY DEF Confirmed

(* Acknowledging an event confirms its version and no other.               *)
LEMMA AckConfirms ==
    ASSUME TypeOK, NEW e \in AcceptedEvent, fate' = [fate EXCEPT ![e] = "acked"]
    PROVE  Confirmed' = [Confirmed EXCEPT ![EventWrite(e).id] = @ \cup {EventWrite(e).version}]
<1>1. e \in Event /\ EventWrite(e).id \in Id
  BY AcceptedWriteAssumption, WriteAssumption DEF AcceptedEvent
<1>2. \A x \in AcceptedEvent : fate'[x] = "acked" <=> fate[x] = "acked" \/ x = e
  BY <1>1 DEF TypeOK, AcceptedEvent
<1>3. ASSUME NEW id \in Id
      PROVE  Confirmed'[id] = IF id = EventWrite(e).id
                              THEN Confirmed[id] \cup {EventWrite(e).version}
                              ELSE Confirmed[id]
  BY <1>2 DEF Confirmed
<1>4. /\ Confirmed = [id \in Id |-> Confirmed[id]]
      /\ Confirmed' = [id \in Id |-> Confirmed'[id]]
  BY DEF Confirmed
<1> QED
  BY <1>1, <1>3, <1>4

(* The projection implements ConfirmedReplica: index steps move a record   *)
(* forward or forget a deletion, an acknowledgement confirms a version the *)
(* record has reached, everything else stutters.                           *)
THEOREM Refinement == Spec => ImplementsReplica
<1>1. Init => Replica!Init
  <2> SUFFICES ASSUME Init PROVE Replica!Init
    OBVIOUS
  <2>1. \A x \in AcceptedEvent : fate[x] # "acked"
    BY DEF Init, AcceptedEvent
  <2>2. Confirmed = [id \in Id |-> {}]
    BY <2>1 DEF Confirmed
  <2> QED
    BY <2>2 DEF Init, StoreInit, Replica!Init
<1>2. IInv /\ [Next]_vars => [Replica!Next]_(Replica!vars)
  <2> SUFFICES ASSUME IInv, [Next]_vars PROVE [Replica!Next]_(Replica!vars)
    OBVIOUS
  <2>0. TypeOK /\ CallInv /\ JobInv /\ IndexStep
    BY NextIsIndexStep DEF IInv
  <2>1. ASSUME NEW w \in Worker, Ack(w) PROVE Replica!Next
    <3> DEFINE write == EventWrite(job[w].event)
    <3>1. job[w].event \in AcceptedEvent /\ Reached(write) /\ write \in Write
      BY <2>0, <2>1, AcceptedWriteAssumption DEF Ack, JobInv, JobOK
    <3>2. Confirmed' = [Confirmed EXCEPT ![write.id] = @ \cup {write.version}]
      BY <2>0, <2>1, <3>1, AckConfirms DEF Ack
    <3>3. write.id \in collected \/ write.version <= index[write.id].version
      BY <2>0, <3>1, WriteAssumption DEF Reached, TypeOK, EntryType
    <3>4. Replica!Confirm(write)
      BY <2>1, <3>2, <3>3 DEF Ack, Replica!Confirm
    <3> QED
      BY <3>1, <3>4 DEF Replica!Next
  <2>2. ASSUME fate' = fate PROVE [Replica!Next]_(Replica!vars)
    <3>0. Confirmed' = Confirmed
      BY <2>2, ConfirmedKept
    <3>1. CASE index' = index /\ collected' = collected
      BY <3>0, <3>1 DEF Replica!vars
    <3>2. ASSUME NEW w \in Write, index' = Applied(w), collected' = collected
          PROVE  [Replica!Next]_(Replica!vars)
      <4>1. CASE Supersedes(w, index[w.id])
        <5>1. Replica!Move(w)
          BY <3>0, <3>2, <4>1 DEF Applied, Supersedes, Entry, Replica!Move, Replica!Entry
        <5> QED
          BY <5>1 DEF Replica!Next
      <4>2. CASE ~ Supersedes(w, index[w.id])
        BY <3>0, <3>2, <4>2 DEF Applied, Replica!vars
      <4> QED
        BY <4>1, <4>2
    <3>3. ASSUME NEW id \in Id, index[id].body = NoDocument,
                 index' = [index EXCEPT ![id] = Absent], collected' = collected \cup {id}
          PROVE  [Replica!Next]_(Replica!vars)
      <4>1. Replica!Forget(id)
        BY <3>0, <3>3 DEF Replica!Forget, Absent
      <4> QED
        BY <4>1 DEF Replica!Next
    <3> QED
      BY <2>0, <3>1, <3>2, <3>3 DEF IndexStep
  <2>3. ASSUME NEW e \in Event, Exhaust(e) PROVE Confirmed' = Confirmed
    <3>1. \A x \in AcceptedEvent : fate'[x] = "acked" <=> fate[x] = "acked"
      BY <2>0, <2>3 DEF Exhaust, TypeOK, AcceptedEvent
    <3> QED
      BY <3>1 DEF Confirmed
  <2>4. ASSUME NEW e \in Event, Exhaust(e) PROVE [Replica!Next]_(Replica!vars)
    BY <2>3, <2>4 DEF Exhaust, Replica!vars
  <2>5. \/ \E w \in Worker : Ack(w)
        \/ \E e \in Event : Exhaust(e)
        \/ fate' = fate
    BY DEF Next, HandlerStep, StreamStep, Deliver, RefuseEarly, SkipCompleted, Claim, RefuseEvent,
           Complete, GiveUp, NoAck, Crash, CleanInbox, BatchCall, BatchReturn, BatchCrash,
           EngineMove, OpenSearchMove, vars
  <2> QED
    BY <2>1, <2>2, <2>4, <2>5
<1> QED
  BY <1>1, <1>2, InductiveInvariant, PTL DEF Spec, ImplementsReplica
-----------------------------------------------------------------------------
(* What would settle the two findings about the index: neither promise     *)
(* fails for another reason than the one the finding names.                *)

\* An identifier without a colon.
Plain(name) == name \in Seq(STRING) /\ Len(name) = 1

\* No colon before the source id.
PlainKey(key) ==
    /\ Plain(key.tenantId) /\ Plain(key.sourceService) /\ Plain(key.documentType)
    /\ key.sourceId \in Seq(STRING)

(* A concatenation starts with the one sequence and goes on with the other. *)
LEMMA Joined ==
    ASSUME NEW S, NEW s \in Seq(S), NEW t \in Seq(S)
    PROVE  /\ s \o t \in Seq(S) /\ Len(s \o t) = Len(s) + Len(t)
           /\ \A k \in 1..Len(s) : (s \o t)[k] = s[k]
           /\ \A k \in 1..Len(t) : (s \o t)[Len(s) + k] = t[k]
<1>1. Len(s) \in Nat /\ Len(t) \in Nat
  OBVIOUS
<1>2. /\ s \o t \in Seq(S) /\ Len(s \o t) = Len(s) + Len(t)
      /\ \A k \in 1..(Len(s) + Len(t)) : (s \o t)[k] = IF k <= Len(s) THEN s[k] ELSE t[k - Len(s)]
  BY ConcatProperties
<1>3. ASSUME NEW k \in 1..Len(t) PROVE (s \o t)[Len(s) + k] = t[k]
  <2>1. Len(s) + k \in 1..(Len(s) + Len(t)) /\ ~ Len(s) + k <= Len(s) /\ (Len(s) + k) - Len(s) = k
    BY <1>1
  <2> QED
    BY <1>2, <2>1
<1>4. ASSUME NEW k \in 1..Len(s) PROVE (s \o t)[k] = s[k]
  BY <1>1, <1>2
<1> QED
  BY <1>2, <1>3, <1>4

(* Where the parts of a canonical id are found.                            *)
LEMMA Parts ==
    ASSUME NEW S, NEW t \in Seq(S), NEW s \in Seq(S), NEW d \in Seq(S), NEW i \in Seq(S),
           Len(t) = 1, Len(s) = 1, Len(d) = 1
    PROVE  /\ Len(CanonicalID(t, s, d, i)) = 3 + Len(i)
           /\ CanonicalID(t, s, d, i)[1] = t[1] /\ CanonicalID(t, s, d, i)[2] = s[1]
           /\ CanonicalID(t, s, d, i)[3] = d[1]
           /\ \A k \in 1..Len(i) : CanonicalID(t, s, d, i)[3 + k] = i[k]
<1> DEFINE two == t \o s
           three == two \o d
           id == three \o i
<1>0. \A x, y \in Seq(S) :
         /\ x \o y \in Seq(S) /\ Len(x \o y) = Len(x) + Len(y)
         /\ \A k \in 1..Len(x) : (x \o y)[k] = x[k]
         /\ \A k \in 1..Len(y) : (x \o y)[Len(x) + k] = y[k]
  BY Joined
<1>1. two \in Seq(S) /\ Len(two) = 2 /\ two[1] = t[1] /\ two[2] = s[1]
  <2>1. /\ two \in Seq(S) /\ Len(two) = Len(t) + Len(s)
        /\ \A k \in 1..Len(t) : two[k] = t[k]
        /\ \A k \in 1..Len(s) : two[Len(t) + k] = s[k]
    BY Zenon, <1>0
  <2> HIDE DEF two
  <2> QED
    BY <2>1
<1> HIDE DEF two
<1>2. three \in Seq(S) /\ Len(three) = 3 /\ three[1] = two[1] /\ three[2] = two[2] /\ three[3] = d[1]
  <2>1. /\ three \in Seq(S) /\ Len(three) = Len(two) + Len(d)
        /\ \A k \in 1..Len(two) : three[k] = two[k]
        /\ \A k \in 1..Len(d) : three[Len(two) + k] = d[k]
    BY Zenon, <1>0, <1>1
  <2> HIDE DEF three
  <2> QED
    BY <1>1, <2>1
<1> HIDE DEF three
<1>3. /\ Len(id) = 3 + Len(i)
      /\ id[1] = three[1] /\ id[2] = three[2] /\ id[3] = three[3]
      /\ \A k \in 1..Len(i) : id[3 + k] = i[k]
  <2>1. /\ Len(id) = Len(three) + Len(i)
        /\ \A k \in 1..Len(three) : id[k] = three[k]
        /\ \A k \in 1..Len(i) : id[Len(three) + k] = i[k]
    BY Zenon, <1>0, <1>2
  <2> HIDE DEF id
  <2> QED
    BY <1>2, <2>1
<1>4. CanonicalID(t, s, d, i) = id
  BY DEF CanonicalID, two, three
<1> HIDE DEF id
<1> QED
  BY <1>1, <1>2, <1>3, <1>4

(* The parts of a canonical id can be told apart unless one before the     *)
(* last holds a colon (CanonicalID).                                       *)
LEMMA CanonicalApart ==
    ASSUME NEW a, NEW b, PlainKey(a), PlainKey(b), IdOf(a) = IdOf(b)
    PROVE  SameRecord(a, b)
<1> DEFINE S == STRING
<1>1. \A x : Plain(x) <=> x \in Seq(S) /\ Len(x) = 1
  BY DEF Plain
<1>2. a.sourceId \in Seq(S) /\ b.sourceId \in Seq(S)
  BY DEF PlainKey
<1> HIDE DEF S
<1>3. ASSUME NEW c, PlainKey(c), c.sourceId \in Seq(S)
      PROVE  /\ Len(IdOf(c)) = 3 + Len(c.sourceId)
             /\ IdOf(c)[1] = c.tenantId[1] /\ IdOf(c)[2] = c.sourceService[1]
             /\ IdOf(c)[3] = c.documentType[1]
             /\ \A k \in 1..Len(c.sourceId) : IdOf(c)[3 + k] = c.sourceId[k]
  <2>1. /\ c.tenantId \in Seq(S) /\ c.sourceService \in Seq(S) /\ c.documentType \in Seq(S)
        /\ Len(c.tenantId) = 1 /\ Len(c.sourceService) = 1 /\ Len(c.documentType) = 1
    BY <1>1, <1>3 DEF PlainKey
  <2> DEFINE t == c.tenantId
             s == c.sourceService
             d == c.documentType
             i == c.sourceId
  <2>2. IdOf(c) = CanonicalID(t, s, d, i)
    BY DEF IdOf
  <2>3. /\ t \in Seq(S) /\ s \in Seq(S) /\ d \in Seq(S) /\ i \in Seq(S)
        /\ Len(t) = 1 /\ Len(s) = 1 /\ Len(d) = 1
    BY <1>3, <2>1
  <2> HIDE DEF t, s, d, i
  <2>4. /\ Len(CanonicalID(t, s, d, i)) = 3 + Len(i)
        /\ CanonicalID(t, s, d, i)[1] = t[1] /\ CanonicalID(t, s, d, i)[2] = s[1]
        /\ CanonicalID(t, s, d, i)[3] = d[1]
        /\ \A k \in 1..Len(i) : CanonicalID(t, s, d, i)[3 + k] = i[k]
    BY SMTT(40), <2>3, Parts
  <2> QED
    BY Zenon, <2>2, <2>4 DEF t, s, d, i
<1>4. Len(a.sourceId) = Len(b.sourceId)
  BY <1>2, <1>3
<1>5. /\ a.tenantId[1] = b.tenantId[1] /\ a.sourceService[1] = b.sourceService[1]
      /\ a.documentType[1] = b.documentType[1]
      /\ \A k \in 1..Len(a.sourceId) : a.sourceId[k] = b.sourceId[k]
  BY SMTT(40), <1>2, <1>3, <1>4
<1>6. \A x, y : Plain(x) /\ Plain(y) /\ x[1] = y[1] => x = y
  BY <1>1
<1>7. a.sourceId = b.sourceId
  BY <1>2, <1>4, <1>5
<1> QED
  BY <1>5, <1>6, <1>7 DEF PlainKey, SameRecord

(* Finding 2 needs a colon: whatever is delivered in whatever order, as    *)
(* long as tenants, source services and document types hold none, what the *)
(* index shows under the id of an acknowledged event is of that event's    *)
(* record (CanonicalID, BatchUpsert, applySearchEvent).                    *)
THEOREM ApartWithoutColons ==
    ASSUME \A e \in AcceptedEvent : PlainKey(Envelope[e].document),
           \A b \in AcceptedBatch : \A i \in DOMAIN b.items : PlainKey(b.items[i])
    PROVE  Spec => []RecordsApart
<1>1. IInv => RecordsApart
  <2> SUFFICES ASSUME IInv, NEW e \in AcceptedEvent, index[EventWrite(e).id].body # NoDocument
               PROVE  SameRecord(index[EventWrite(e).id].body, Envelope[e].document)
    BY DEF RecordsApart
  <2> DEFINE shown == index[EventWrite(e).id].body
  <2>1. EventWrite(e).id \in Id
    BY AcceptedWriteAssumption, WriteAssumption
  <2>2. PICK w \in Write : w.id = EventWrite(e).id /\ index[EventWrite(e).id] = Entry(w)
    BY <2>1 DEF IInv, OnlyAcceptedContent, Absent
  <2>3. w.body = shown
    BY <2>2 DEF Entry
  <2>4. w.id = IdOf(shown) /\ PlainKey(shown)
    <3>1. ASSUME NEW x \in AcceptedEvent, w = EventWrite(x) PROVE w.id = IdOf(shown) /\ PlainKey(shown)
      <4>1. shown = Envelope[x].document
        BY <2>3, <3>1 DEF EventWrite, BatchWrites, EventBatch, UpsertWrite, DeleteWrite
      <4> QED
        BY <2>3, <3>1, <4>1, EventWriteSound
    <3>2. ASSUME NEW b \in AcceptedBatch, NEW i \in DOMAIN b.items, w = BatchWrites(b)[i]
          PROVE  w.id = IdOf(shown) /\ PlainKey(shown)
      <4>1. shown = b.items[i]
        BY <2>3, <3>2 DEF BatchWrites, UpsertWrite, DeleteWrite
      <4> QED
        BY <2>3, <3>2, <4>1, BatchWriteSound
    <3> QED
      BY <3>1, <3>2, AcceptedWriteAssumption
  <2>5. EventWrite(e).id = IdOf(Envelope[e].document)
    BY DEF EventWrite, BatchWrites, EventBatch, UpsertWrite, DeleteWrite
  <2> QED
    BY <2>2, <2>4, <2>5, CanonicalApart
<1> QED
  BY <1>1, InductiveInvariant, PTL

(* Finding 1 needs a dropped deletion marker: as long as OpenSearch drops  *)
(* none, a document in the index is never older than an acknowledged       *)
(* event, whatever order events, late requests and batches arrive in       *)
(* (the engine's external_gte, Upsert and Delete).                         *)
THEOREM NothingOlderWithMarkers ==
    Spec /\ [](collected = {}) => []NothingOlderReturns
<1>1. IInv /\ collected = {} => NothingOlderReturns
  BY DEF IInv, SettledReached, Reached, NothingOlderReturns, AcceptedEvent
<1> QED
  BY <1>1, InductiveInvariant, PTL-----------------------------------------------------------------------------
(* How long an engine call and the handling of a delivery may take.        *)

\* A handler has an engine call only while it applies an event.
Engaged == \A w \in Worker : call[w].state # "idle" => job[w].stage = "applying"

\* What a step may do to a call and to a job, whoever takes it.
LEMMA CallChange ==
    ASSUME TypeOK, [Next]_vars, NEW c \in Client
    PROVE  \/ call'[c] = call[c]
           \/ call'[c] = NoCall
           \/ c \in Worker /\ Claim(c)
           \/ c \in Caller /\ \E b \in Batch : BatchCall(c, b)
           \/ EngineMove(c)
<1> DEFINE Goal == \/ call'[c] = call[c] \/ call'[c] = NoCall \/ (c \in Worker /\ Claim(c))
                   \/ (c \in Caller /\ \E b \in Batch : BatchCall(c, b)) \/ EngineMove(c)
<1> USE ClientAssumption
<1>1. ASSUME NEW w \in Worker, HandlerStep(w) \/ Crash(w) PROVE Goal
  <2>1. CASE Claim(w)
    BY <2>1 DEF Claim, Begin, TypeOK
  <2>2. CASE Complete(w) \/ GiveUp(w) \/ Crash(w)
    BY <2>2 DEF Complete, GiveUp, Crash, Vanish, TypeOK
  <2>3. CASE RefuseEarly(w) \/ SkipCompleted(w) \/ RefuseEvent(w) \/ Ack(w) \/ NoAck(w)
    BY <2>3 DEF RefuseEarly, SkipCompleted, RefuseEvent, Ack, NoAck
  <2> QED
    BY <1>1, <2>1, <2>2, <2>3 DEF HandlerStep
<1>2. ASSUME NEW e \in Event, StreamStep(e) \/ CleanInbox(e) PROVE Goal
  BY <1>2 DEF StreamStep, Deliver, Exhaust, CleanInbox
<1>3. ASSUME NEW d \in Caller, BatchReturn(d) \/ BatchCrash(d) PROVE Goal
  BY <1>3 DEF BatchReturn, BatchCrash, Vanish, TypeOK
<1>4. ASSUME NEW d \in Caller, NEW b \in Batch, BatchCall(d, b) PROVE Goal
  BY <1>4 DEF BatchCall, Begin, TypeOK
<1>5. ASSUME NEW d \in Client, EngineMove(d) PROVE Goal
  BY <1>5 DEF EngineMove, EngineStep, Answer, Proceed, Retry, Fail, TypeOK
<1>6. CASE OpenSearchMove \/ UNCHANGED vars
  BY <1>6 DEF OpenSearchMove, OpenSearchStep, ApplyOrphan, CollectDeleted, vars
<1> QED
  BY <1>1, <1>2, <1>3, <1>4, <1>5, <1>6 DEF Next

LEMMA JobChange ==
    ASSUME TypeOK, [Next]_vars, NEW w \in Worker
    PROVE  \/ job'[w] = job[w]
           \/ job'[w] = NoJob /\ call'[w] = NoCall
           \/ HandlerStep(w)
           \/ \E e \in Event : Deliver(w, e)
<1> DEFINE Goal == \/ job'[w] = job[w] \/ (job'[w] = NoJob /\ call'[w] = NoCall) \/ HandlerStep(w)
                   \/ \E e \in Event : Deliver(w, e)
<1> USE ClientAssumption
<1>1. ASSUME NEW v \in Worker, HandlerStep(v) PROVE Goal
  BY <1>1 DEF HandlerStep, RefuseEarly, SkipCompleted, Claim, RefuseEvent, Complete, GiveUp, Ack, NoAck,
      Stage, TypeOK
<1>2. ASSUME NEW v \in Worker, Crash(v) PROVE Goal
  BY <1>2 DEF Crash, Vanish, TypeOK
<1>3. ASSUME NEW e \in Event, StreamStep(e) \/ CleanInbox(e) PROVE Goal
  BY <1>3 DEF StreamStep, Deliver, Exhaust, CleanInbox, TypeOK
<1>4. ASSUME NEW d \in Caller, \/ BatchReturn(d) \/ BatchCrash(d)
                               \/ \E b \in Batch : BatchCall(d, b)
      PROVE  Goal
  BY <1>4 DEF BatchReturn, BatchCrash, BatchCall
<1>5. ASSUME NEW d \in Client, EngineMove(d) PROVE Goal
  BY <1>5 DEF EngineMove
<1>6. CASE OpenSearchMove \/ UNCHANGED vars
  BY <1>6 DEF OpenSearchMove, vars
<1> QED
  BY <1>1, <1>2, <1>3, <1>4, <1>5, <1>6 DEF Next

LEMMA EngagedAlways == Spec => []Engaged
<1>1. Init => Engaged
  BY ClientAssumption DEF Init, StoreInit, NoCall, Engaged
<1>2. IInv /\ Engaged /\ [Next]_vars => Engaged'
  <2> SUFFICES ASSUME IInv, Engaged, [Next]_vars, NEW w \in Worker, call'[w].state # "idle"
               PROVE  job'[w].stage = "applying"
    BY DEF Engaged
  <2>1. w \in Client /\ w \notin Caller /\ TypeOK /\ NoCall.state = "idle"
    BY ClientAssumption DEF IInv, NoCall
  <2>2. CASE Claim(w)
    BY <2>1, <2>2 DEF Claim, Stage, TypeOK, JobType
  <2>3. CASE EngineMove(w)
    BY <2>3 DEF EngineMove, EngineStep, Answer, Retry, Fail, GiveUpAttempt, Engaged
  <2>4. CASE call'[w] = call[w]
    <3>1. job[w].stage = "applying"
      BY <2>4 DEF Engaged
    <3>2. CASE HandlerStep(w)
      <4>1. call'[w] = NoCall
        BY <2>1, <3>1, <3>2 DEF HandlerStep, RefuseEarly, SkipCompleted, Claim, RefuseEvent, Complete, GiveUp,
            Ack, NoAck, TypeOK
      <4> QED
        BY <2>1, <4>1
    <3>3. CASE \E e \in Event : Deliver(w, e)
      BY <3>1, <3>3 DEF Deliver
    <3> QED
      BY <2>1, <3>1, <3>2, <3>3, JobChange
  <2> QED
    BY <2>1, <2>2, <2>3, <2>4, CallChange
<1> QED
  BY <1>1, <1>2, InductiveInvariant, PTL DEF Spec

\* The requests an engine call has left to send at most: what remains of the
\* current item's attempts, and all of those of the items behind it.
RequestsLeft(c) ==
    IF call[c].state = "busy"
    THEN (Len(call[c].writes) - call[c].position) * (MaxRetries + 1)
            + (MaxRetries - call[c].attempt) + 1
    ELSE 0

LEMMA Rows ==
    ASSUME NEW a \in Nat, NEW b \in Nat
    PROVE  /\ a * b \in Nat
           /\ (a + 1) * b = a * b + b
  OBVIOUS

LEMMA RequestsBound ==
    ASSUME TypeOK, CallInv, NEW c \in Client
    PROVE  /\ RequestsLeft(c) \in Nat
           /\ RequestsLeft(c) <= Len(call[c].writes) * (MaxRetries + 1)
<1> DEFINE length == Len(call[c].writes)
           behind == length - call[c].position
<1>1. /\ length \in Nat /\ call[c].position \in Nat /\ call[c].attempt \in 0..MaxRetries
      /\ MaxRetries \in Nat
  BY MaxRetriesAssumption DEF TypeOK, CallType
<1>2. CASE call[c].state = "busy"
  <2>1. call[c].position \in 1..length
    BY <1>2 DEF CallInv
  <2>2. behind \in Nat /\ behind + 1 <= length
    BY SMTT(30), <1>1, <2>1
  <2>3. RequestsLeft(c) = behind * (MaxRetries + 1) + (MaxRetries - call[c].attempt) + 1
    BY <1>2 DEF RequestsLeft
  <2> HIDE DEF length, behind
  <2>4. /\ behind * (MaxRetries + 1) \in Nat
        /\ (behind + 1) * (MaxRetries + 1) = behind * (MaxRetries + 1) + (MaxRetries + 1)
    BY <1>1, <2>2, Rows
  <2>5. (behind + 1) * (MaxRetries + 1) <= length * (MaxRetries + 1)
    <3> DEFINE more == length - (behind + 1)
    <3>1. more \in Nat /\ length = (behind + 1) + more
      BY <1>1, <2>2
    <3> HIDE DEF more
    <3>2. ((behind + 1) + more) * (MaxRetries + 1) = (behind + 1) * (MaxRetries + 1) + more * (MaxRetries + 1)
      BY <1>1, <2>2, <3>1
    <3>3. more * (MaxRetries + 1) \in Nat /\ (behind + 1) * (MaxRetries + 1) \in Nat
      BY <1>1, <2>2, <3>1, Rows
    <3> QED
      BY <3>1, <3>2, <3>3
  <2>6. behind * (MaxRetries + 1) + (MaxRetries - call[c].attempt) + 1 \in Nat
    BY <1>1, <2>4
  <2>7. behind * (MaxRetries + 1) + (MaxRetries - call[c].attempt) + 1 <= length * (MaxRetries + 1)
    <3> DEFINE x == behind * (MaxRetries + 1)
               y == length * (MaxRetries + 1)
    <3>1. x \in Nat /\ y \in Nat /\ x + (MaxRetries + 1) <= y
      BY <1>1, <2>2, <2>4, <2>5, Rows
    <3> HIDE DEF x, y
    <3>2. x + (MaxRetries - call[c].attempt) + 1 <= y
      BY <1>1, <3>1
    <3> QED
      BY <3>2 DEF x, y
  <2> QED
    BY <2>3, <2>6, <2>7 DEF length
<1>3. CASE call[c].state # "busy"
  <2>1. length * (MaxRetries + 1) \in Nat
    BY <1>1, Rows
  <2> QED
    BY <1>3, <2>1 DEF RequestsLeft
<1> QED
  BY <1>2, <1>3

LEMMA EngineNears ==
    ASSUME TypeOK, CallInv, NEW c \in Client, EngineMove(c)
    PROVE  RequestsLeft(c)' < RequestsLeft(c)
<1> DEFINE length == Len(call[c].writes)
           at == call[c].position
           left == MaxRetries - call[c].attempt
<1>1. call[c].state = "busy" /\ call[c] \in CallType
  BY DEF EngineMove, EngineStep, Answer, Retry, Fail, GiveUpAttempt, TypeOK
<1>2. length \in Nat /\ at \in 1..length /\ left \in Nat /\ MaxRetries \in Nat
  BY <1>1, MaxRetriesAssumption DEF CallInv, CallType
<1>3. RequestsLeft(c) = (length - at) * (MaxRetries + 1) + left + 1
  BY <1>1 DEF RequestsLeft
<1>4. RequestsLeft(c) > 0 /\ RequestsLeft(c) \in Nat
  <2> HIDE DEF length, at, left
  <2>1. (length - at) * (MaxRetries + 1) \in Nat
    BY <1>2, Rows
  <2> QED
    BY <1>2, <1>3, <2>1
<1>5. CASE Answer(c) /\ at = length
  <2>1. call'[c].state = "ok"
    BY <1>1, <1>5 DEF Answer, Proceed, TypeOK, CallType
  <2> QED
    BY <1>4, <2>1 DEF RequestsLeft
<1>6. CASE Answer(c) /\ at # length
  <2>1. call'[c] = AtItem(call[c].writes, at + 1)
    BY <1>6 DEF Answer, Proceed, TypeOK
  <2>2. RequestsLeft(c)' = (length - (at + 1)) * (MaxRetries + 1) + (MaxRetries - 0) + 1
    BY <2>1 DEF AtItem, RequestsLeft
  <2> HIDE DEF length, at, left
  <2> DEFINE rest == length - (at + 1)
  <2>3. rest \in Nat /\ length - at = rest + 1
    BY <1>2, <1>6
  <2> HIDE DEF rest
  <2>4. (rest + 1) * (MaxRetries + 1) = rest * (MaxRetries + 1) + (MaxRetries + 1) /\ rest * (MaxRetries + 1) \in Nat
    BY <1>2, <2>3, Rows
  <2> QED
    BY <1>2, <1>3, <2>2, <2>3, <2>4 DEF rest
<1>7. CASE Retry(c)
  <2>1. /\ call'[c].state = "busy" /\ call'[c].writes = call[c].writes /\ call'[c].position = at
        /\ call'[c].attempt = call[c].attempt + 1
    BY <1>1, <1>7 DEF Retry, GiveUpAttempt, TypeOK, CallType
  <2>2. RequestsLeft(c)' = (length - at) * (MaxRetries + 1) + (MaxRetries - (call[c].attempt + 1)) + 1
    BY <2>1 DEF RequestsLeft
  <2>3. MaxRetries - (call[c].attempt + 1) = left - 1
    BY <1>1, <1>2 DEF CallType
  <2> HIDE DEF length, at, left
  <2>4. (length - at) * (MaxRetries + 1) \in Nat
    BY <1>2, Rows
  <2> QED
    BY <1>2, <1>3, <2>2, <2>3, <2>4
<1>8. CASE Fail(c)
  <2>1. call'[c].state = "error"
    BY <1>1, <1>8 DEF Fail, TypeOK, CallType
  <2> QED
    BY <1>4, <2>1 DEF RequestsLeft
<1> QED
  BY <1>5, <1>6, <1>7, <1>8 DEF EngineMove, EngineStep
CallBounds == \A c \in Client : RequestsLeft(c) \in 0..(Len(call[c].writes) * (MaxRetries + 1))

LEMMA CallsBounded == IInv => CallBounds
<1> SUFFICES ASSUME IInv, NEW c \in Client
             PROVE  RequestsLeft(c) \in 0..(Len(call[c].writes) * (MaxRetries + 1))
  BY DEF CallBounds
<1>1. RequestsLeft(c) \in Nat /\ RequestsLeft(c) <= Len(call[c].writes) * (MaxRetries + 1)
  BY RequestsBound DEF IInv
<1>2. Len(call[c].writes) \in Nat /\ MaxRetries + 1 \in Nat
  BY MaxRetriesAssumption DEF IInv, TypeOK, CallType
<1>3. Len(call[c].writes) * (MaxRetries + 1) \in Nat
  BY <1>2, Rows
<1> QED
  BY <1>1, <1>3

\* The loops of Upsert and Delete end: whatever OpenSearch and other callers
\* do, every answer, retry or failure brings a call closer to its return, and
\* a call of n items sends at most n * (MaxRetries + 1) requests.
THEOREM CallsEnd ==
    Spec => [][\A c \in Client :
                  /\ RequestsLeft(c) \in 0..(Len(call[c].writes) * (MaxRetries + 1))
                  /\ EngineMove(c) => RequestsLeft(c)' < RequestsLeft(c)
                  /\ RequestsLeft(c)' > RequestsLeft(c) => call[c].state = "idle"]_vars
<1> DEFINE Nearing(c) ==
              /\ RequestsLeft(c) \in 0..(Len(call[c].writes) * (MaxRetries + 1))
              /\ EngineMove(c) => RequestsLeft(c)' < RequestsLeft(c)
              /\ RequestsLeft(c)' > RequestsLeft(c) => call[c].state = "idle"
<1>1. ASSUME IInv, CallBounds, CallBounds', Engaged, [Next]_vars, NEW c \in Client PROVE Nearing(c)
  <2>1. RequestsLeft(c) \in 0..(Len(call[c].writes) * (MaxRetries + 1)) /\ RequestsLeft(c) \in Nat
    BY <1>1, RequestsBound DEF IInv, CallBounds
  <2>2. RequestsLeft(c)' \in Int
    BY <1>1 DEF CallBounds
  <2>3. EngineMove(c) => RequestsLeft(c)' < RequestsLeft(c)
    BY <1>1, EngineNears DEF IInv
  <2>4. RequestsLeft(c)' > RequestsLeft(c) => call[c].state = "idle"
    <3>1. CASE call'[c] = call[c]
      <4>1. RequestsLeft(c)' = RequestsLeft(c)
        BY <3>1 DEF RequestsLeft
      <4> QED
        BY <2>1, <4>1
    <3>2. CASE call'[c] = NoCall
      <4>1. RequestsLeft(c)' = 0
        BY <3>2 DEF RequestsLeft, NoCall
      <4> QED
        BY <2>1, <4>1
    <3>3. CASE c \in Worker /\ Claim(c)
      BY <1>1, <3>3 DEF Claim, Engaged
    <3>4. CASE \E b \in Batch : BatchCall(c, b)
      BY <3>4 DEF BatchCall
    <3>5. CASE EngineMove(c)
      BY <2>1, <2>2, <2>3, <3>5
    <3> QED
      BY <1>1, <3>1, <3>2, <3>3, <3>4, <3>5, CallChange DEF IInv
  <2> QED
    BY <2>1, <2>3, <2>4
<1>2. IInv /\ CallBounds /\ CallBounds' /\ Engaged /\ [Next]_vars => [\A c \in Client : Nearing(c)]_vars
  BY <1>1
<1> QED
  BY <1>2, CallsBounded, InductiveInvariant, EngagedAlways, PTL DEF Spec

\* The steps the handling of one delivery has left at most.
HandlingLeft(w) ==
    CASE job[w].stage = "received" -> MaxRetries + 4
      [] job[w].stage = "applying" -> RequestsLeft(w) + 2
      [] job[w].stage \in {"ok", "err"} -> 1
      [] OTHER -> 0

HandlingBounds ==
    \A w \in Worker :
        /\ HandlingLeft(w) \in 0..(MaxRetries + 4)
        /\ job[w].stage = "applying" => RequestsLeft(w) \in 0..(MaxRetries + 1)

LEMMA HandlingBounded == IInv => HandlingBounds
<1> SUFFICES ASSUME IInv, NEW w \in Worker
             PROVE  /\ HandlingLeft(w) \in 0..(MaxRetries + 4)
                    /\ job[w].stage = "applying" => RequestsLeft(w) \in 0..(MaxRetries + 1)
  BY DEF HandlingBounds
<1>1. w \in Client /\ MaxRetries \in Nat /\ job[w].stage \in {"idle", "received", "applying", "ok", "err"}
  BY ClientAssumption, MaxRetriesAssumption DEF IInv, TypeOK, JobType
<1>2. ASSUME job[w].stage = "applying" PROVE RequestsLeft(w) \in 0..(MaxRetries + 1)
  <2>1. call[w].writes = <<EventWrite(job[w].event)>>
    BY <1>2 DEF IInv, JobInv, JobOK
  <2>2. Len(call[w].writes) = 1
    BY <2>1
  <2>3. Len(call[w].writes) * (MaxRetries + 1) = MaxRetries + 1
    BY <1>1, <2>2
  <2> QED
    BY <1>1, <2>3, CallsBounded DEF CallBounds
<1> QED
  BY <1>1, <1>2 DEF HandlingLeft

\* The handling of a delivery ends: every step of the handler, and of the
\* engine on its behalf, brings it closer to the acknowledgement or the error,
\* whatever other handlers, batches and OpenSearch do meanwhile; only another
\* delivery begins it again.
THEOREM HandlingEnds ==
    Spec => [][\A w \in Worker :
                  /\ HandlingLeft(w) \in 0..(MaxRetries + 4)
                  /\ HandlerStep(w) \/ EngineMove(w) => HandlingLeft(w)' < HandlingLeft(w)
                  /\ HandlingLeft(w)' > HandlingLeft(w) => \E e \in Event : Deliver(w, e)]_vars
<1> DEFINE Nearing(w) ==
              /\ HandlingLeft(w) \in 0..(MaxRetries + 4)
              /\ HandlerStep(w) \/ EngineMove(w) => HandlingLeft(w)' < HandlingLeft(w)
              /\ HandlingLeft(w)' > HandlingLeft(w) => \E e \in Event : Deliver(w, e)
<1>1. ASSUME IInv, HandlingBounds, HandlingBounds', Engaged, [Next]_vars, NEW w \in Worker
      PROVE  Nearing(w)
  <2>1. /\ HandlingLeft(w) \in 0..(MaxRetries + 4)
        /\ job[w].stage = "applying" => RequestsLeft(w) \in 0..(MaxRetries + 1)
    BY <1>1 DEF HandlingBounds
  <2>2. w \in Client /\ MaxRetries \in Nat /\ job[w].stage \in {"idle", "received", "applying", "ok", "err"}
    BY <1>1, ClientAssumption, MaxRetriesAssumption DEF IInv, TypeOK, JobType
  <2>3. /\ HandlingLeft(w)' \in 0..(MaxRetries + 4)
        /\ job'[w].stage = "applying" => RequestsLeft(w)' \in 0..(MaxRetries + 1)
    BY <1>1 DEF HandlingBounds
  <2>4. ASSUME HandlerStep(w) PROVE HandlingLeft(w)' < HandlingLeft(w)
    <3>1. CASE Claim(w)
      <4>1. /\ job[w].stage = "received" /\ job'[w].stage = "applying"
            /\ call'[w] = AtItem(<<EventWrite(job[w].event)>>, 1)
        BY <1>1, <2>2, <3>1 DEF Claim, Stage, Begin, IInv, TypeOK, JobType
      <4>2. RequestsLeft(w)' = MaxRetries + 1
        BY <2>2, <4>1 DEF RequestsLeft, AtItem
      <4> QED
        BY <2>2, <4>1, <4>2 DEF HandlingLeft
    <3>2. CASE RefuseEarly(w) \/ SkipCompleted(w) \/ RefuseEvent(w)
      <4>1. job[w].stage = "received" /\ job'[w].stage \in {"ok", "err"}
        BY <1>1, <3>2 DEF RefuseEarly, SkipCompleted, RefuseEvent, Stage, IInv, TypeOK, JobType
      <4> QED
        BY <2>2, <4>1 DEF HandlingLeft
    <3>3. CASE Complete(w) \/ GiveUp(w)
      <4>1. job[w].stage = "applying" /\ job'[w].stage \in {"ok", "err"}
        BY <1>1, <3>3 DEF Complete, GiveUp, Stage, IInv, TypeOK, JobType
      <4> QED
        BY <2>1, <2>2, <4>1 DEF HandlingLeft
    <3>4. CASE Ack(w) \/ NoAck(w)
      <4>1. job[w].stage \in {"ok", "err"} /\ job'[w].stage = "idle"
        BY <1>1, <3>4 DEF Ack, NoAck, NoJob, IInv, TypeOK
      <4> QED
        BY <4>1 DEF HandlingLeft
    <3> QED
      BY <2>4, <3>1, <3>2, <3>3, <3>4 DEF HandlerStep
  <2>5. ASSUME EngineMove(w) PROVE HandlingLeft(w)' < HandlingLeft(w)
    <3>1. job'[w] = job[w] /\ job[w].stage = "applying"
      BY <1>1, <2>5 DEF EngineMove, EngineStep, Answer, Retry, Fail, GiveUpAttempt, Engaged
    <3>2. RequestsLeft(w)' < RequestsLeft(w)
      BY <1>1, <2>2, <2>5, EngineNears DEF IInv
    <3>3. RequestsLeft(w)' \in 0..(MaxRetries + 1)
      BY <2>3, <3>1
    <3> QED
      BY <2>1, <2>2, <3>1, <3>2, <3>3 DEF HandlingLeft
  <2>6. HandlingLeft(w)' > HandlingLeft(w) => \E e \in Event : Deliver(w, e)
    <3>0. HandlingLeft(w) \in Int /\ HandlingLeft(w)' \in Int
      BY <2>1, <2>3
    <3>1. CASE job'[w] = NoJob
      <4>1. HandlingLeft(w)' = 0
        BY <3>1 DEF HandlingLeft, NoJob
      <4> QED
        BY <2>1, <4>1
    <3>2. CASE HandlerStep(w)
      BY <2>4, <3>0, <3>2
    <3>3. CASE job'[w] = job[w]
      <4>1. CASE EngineMove(w)
        BY <2>5, <3>0, <4>1
      <4>2. CASE job[w].stage # "applying"
        <5>1. HandlingLeft(w)' = HandlingLeft(w)
          BY <3>3, <4>2 DEF HandlingLeft
        <5> QED
          BY <3>0, <5>1
      <4>3. ASSUME job[w].stage = "applying", call'[w] = call[w] \/ call'[w] = NoCall
            PROVE  HandlingLeft(w)' <= HandlingLeft(w)
        <5>1. RequestsLeft(w)' = RequestsLeft(w) \/ RequestsLeft(w)' = 0
          BY <4>3 DEF RequestsLeft, NoCall
        <5> QED
          BY <2>1, <2>2, <3>3, <4>3, <5>1 DEF HandlingLeft
      <4>4. ~ Claim(w) \/ HandlerStep(w)
        BY DEF HandlerStep
      <4> QED
        BY <1>1, <2>2, <3>0, <3>2, <4>1, <4>2, <4>3, <4>4, CallChange, ClientAssumption DEF IInv
    <3> QED
      BY <1>1, <3>1, <3>2, <3>3, JobChange DEF IInv
  <2> QED
    BY <2>1, <2>4, <2>5, <2>6
<1>2. IInv /\ HandlingBounds /\ HandlingBounds' /\ Engaged /\ [Next]_vars => [\A w \in Worker : Nearing(w)]_vars
  BY <1>1
<1> QED
  BY <1>2, HandlingBounded, InductiveInvariant, EngagedAlways, PTL DEF Spec

=============================================================================
