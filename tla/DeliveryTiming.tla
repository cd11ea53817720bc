--------------------------- MODULE DeliveryTiming ---------------------------
(***************************************************************************)
(* The clock side of the projection: one event on its way through the      *)
(* durable consumer and the inbox, with the ack wait, the handler timeout, *)
(* the retry delay, the stream's age limit and the inbox retention that    *)
(* internal/config/config.go validates and internal/app/search_projection  *)
(* and internal/eventbus/bus.go hand to the shared libraries (external).   *)
(*                                                                         *)
(* Projection assumes nothing about time and lets two handlers meet on an  *)
(* event.  This module shows what the configured times add: handlers of    *)
(* one event never overlap, and an event is committed again only when its  *)
(* row in the inbox has outlived the retention.                            *)
(***************************************************************************)
EXTENDS Naturals

CONSTANTS
    Handler,         \* handlers of all replicas
    AckWait,         \* event_bus.consumer_ack_wait
    HandlerTimeout,  \* event_bus.consumer_handler_timeout
    RetryDelay,      \* event_bus.consumer_retry_delay
    MaxRetryDelay,   \* event_bus.consumer_max_retry_delay
    MaxDeliver,      \* event_bus.consumer_max_deliver
    MaxAge,          \* event_bus.max_age
    Retention,       \* event_bus.inbox_retention
    Horizon          \* bound on the clock, for model checking only

\* Validate, for an enabled event bus.
ConfigValid ==
    /\ AckWait > 0 /\ MaxAge > 0 /\ MaxDeliver > 0
    /\ HandlerTimeout > 0 /\ HandlerTimeout < AckWait
    /\ RetryDelay > 0 /\ MaxRetryDelay >= RetryDelay
    /\ Retention > 0

ASSUME TimingAssumption ==
    /\ {AckWait, HandlerTimeout, RetryDelay, MaxRetryDelay, MaxDeliver, MaxAge,
        Retention, Horizon} \subseteq Nat
    /\ ConfigValid

\* Not checked by Validate, which asks for a positive retention only; true of the
\* defaults (336h against 168h and 25s).
RetentionCovers == Retention >= MaxAge + HandlerTimeout

VARIABLES
    now,         \* time since the event was published
    deliveries,  \* external: deliveries so far
    due,         \* external: earliest time of the next delivery
    acked,       \* external: the stream has the acknowledgement
    handler,     \* what each handler does with the event, and since when it has it
    row,         \* external: its row in search_event_inbox
    applied      \* history: how often the callback's transaction was committed

vars == <<now, deliveries, due, acked, handler, row, applied>>

Idle == [state |-> "idle", since |-> 0]

NoRow == [status |-> "none", at |-> 0]

Busy(h) == handler[h].state # "idle"

Init ==
    /\ now = 0
    /\ deliveries = 0
    /\ due = 0
    /\ acked = FALSE
    /\ handler = [h \in Handler |-> Idle]
    /\ row = NoRow
    /\ applied = 0

\* Mutant: the handler's context has no deadline.
TickFreely ==
    /\ now < Horizon
    /\ now' = now + 1
    /\ UNCHANGED <<deliveries, due, acked, handler, row, applied>>

\* A handler's context expires HandlerTimeout after the delivery; the handler
\* passes it to every call it makes and returns no later.
Tick ==
    /\ now < Horizon
    /\ \A h \in Handler : Busy(h) => now < handler[h].since + HandlerTimeout
    /\ now' = now + 1
    /\ UNCHANGED <<deliveries, due, acked, handler, row, applied>>

\* First delivery, or redelivery of what is not acknowledged and not too old.
Deliver(h) ==
    /\ ~ acked /\ ~ Busy(h)
    /\ now < MaxAge
    /\ deliveries < MaxDeliver
    /\ now >= due
    /\ deliveries' = deliveries + 1
    /\ due' = now + AckWait
    /\ handler' = [handler EXCEPT ![h] = [state |-> "received", since |-> now]]
    /\ UNCHANGED <<now, acked, row, applied>>

\* The handler is through; the acknowledgement may be lost.
Done(h) ==
    /\ handler' = [handler EXCEPT ![h] = Idle]
    /\ acked' \in {acked, TRUE}

\* inbox.Process finds the event completed.
Skip(h) ==
    /\ handler[h].state = "received"
    /\ row.status = "completed"
    /\ Done(h)
    /\ UNCHANGED <<now, deliveries, due, row, applied>>

\* inbox.Process records the attempt and calls applySearchEvent.
Claim(h) ==
    /\ handler[h].state = "received"
    /\ row.status # "completed"
    /\ row' = [status |-> "processing", at |-> now]
    /\ handler' = [handler EXCEPT ![h] = [state |-> "applying", since |-> handler[h].since]]
    /\ UNCHANGED <<now, deliveries, due, acked, applied>>

\* applySearchEvent returned nil and the inbox transaction commits.
Complete(h) ==
    /\ handler[h].state = "applying"
    /\ row' = [status |-> "completed", at |-> now]
    /\ applied' = applied + 1
    /\ Done(h)
    /\ UNCHANGED <<now, deliveries, due>>

\* The handler returns an error and asks for a retry, or dies and leaves the
\* stream to the ack wait.
Fail(h) ==
    /\ Busy(h)
    /\ handler' = [handler EXCEPT ![h] = Idle]
    /\ due' \in {due} \cup {now + d : d \in RetryDelay..MaxRetryDelay}
    /\ UNCHANGED <<now, deliveries, acked, row, applied>>

\* Mutant: the cleaner does not look at the age of a row.
CleanAny ==
    /\ row.status = "completed"
    /\ row' = NoRow
    /\ UNCHANGED <<now, deliveries, due, acked, handler, applied>>

\* The cleaner removes a completed row of the retention's age.
Clean ==
    /\ row.status = "completed"
    /\ now >= row.at + Retention
    /\ row' = NoRow
    /\ UNCHANGED <<now, deliveries, due, acked, handler, applied>>

HandlerStep(h) == Deliver(h) \/ Skip(h) \/ Claim(h) \/ Complete(h) \/ Fail(h)

Next == Tick \/ Clean \/ \E h \in Handler : HandlerStep(h)

Spec == Init /\ [][Next]_vars

-----------------------------------------------------------------------------
(* Properties.                                                             *)

\* Types; the stream delivers an event consumer_max_deliver times at most.
TypeOK ==
    /\ now \in Nat /\ due \in Nat
    /\ deliveries \in 0..MaxDeliver
    /\ acked \in BOOLEAN
    /\ handler \in [Handler -> [state : {"idle", "received", "applying"}, since : Nat]]
    /\ row \in [status : {"none", "processing", "completed"}, at : Nat]
    /\ applied \in Nat

\* Two handlers never work on the event at the same time: the stream hands it
\* out again only after the ack wait or a refusal, and by then the handler
\* timeout (which Validate keeps below the ack wait) has ended the first.
NoOverlap ==
    \A g, h \in Handler : Busy(g) /\ Busy(h) => g = h

\* The inbox makes the consumer idempotent (README, projection consistency) for
\* as long as the row of a completed event is kept: however often the event is
\* delivered, its callback is committed again only after another retention, and
\* never later than the stream and a handler may have the event.  With a
\* retention that covers that time (RetentionCovers) there is one commit.
CommitsSpaced ==
    applied > 0 => (applied - 1) * Retention < MaxAge + HandlerTimeout
=============================================================================
