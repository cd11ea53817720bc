----------------------------- MODULE Projection -----------------------------
(***************************************************************************)
(* The search projection: event handlers started by                        *)
(* internal/app/search_projection.go take events from a JetStream durable  *)
(* consumer, pass them through the inbox table and write them to the index *)
(* with the engine of SearchStore, while batch RPCs                        *)
(* (internal/transport/grpc/server.go) write to the same index.            *)
(*                                                                         *)
(* The stream and the inbox library are external.  The stream delivers an  *)
(* event until it is acknowledged, at most MaxDeliver times, in any order, *)
(* possibly to two handlers at once.  The inbox skips an event it has      *)
(* recorded as completed; no more is assumed of it, in particular not that *)
(* it keeps two handlers apart.                                            *)
(***************************************************************************)
EXTENDS SearchStore

CONSTANTS
    Worker,      \* event handlers running in all replicas of the service
    Caller,      \* batch RPCs in progress (BatchUpsertDocuments, BatchDeleteDocuments)
    Event,       \* event ids
    Envelope,    \* the envelope published under each event id
    Batch,       \* the requests batch RPCs may carry
    MaxDeliver,  \* event_bus.consumer_max_deliver (10 by default)
    NoEvent      \* what an idle handler works on

ASSUME ClientAssumption ==
    Client = Worker \cup Caller /\ Worker \cap Caller = {}

ASSUME MaxDeliverAssumption == MaxDeliver \in Nat \ {0}

ASSUME NoEventAssumption == NoEvent \notin Event

\* Events whose handler gets as far as the engine, and the write it makes.
AcceptedEvent ==
    {e \in Event : SchemaSupported(Envelope[e]) /\ EventAccepts(Envelope[e])}

EventWrite(e) == BatchWrites(EventBatch(Envelope[e]))[1]

AcceptedBatch == {b \in Batch : BatchAccepts(b)}

ASSUME AcceptedWriteAssumption ==
    /\ \A e \in AcceptedEvent : EventWrite(e) \in Write
    /\ \A b \in AcceptedBatch : /\ BatchWrites(b) \in Seq(Write)
                                /\ Len(BatchWrites(b)) > 0
    /\ \A w \in Write : \/ \E e \in AcceptedEvent : w = EventWrite(e)
                        \/ \E b \in AcceptedBatch : \E i \in DOMAIN b.items : w = BatchWrites(b)[i]

VARIABLES
    fate,        \* external: what the stream knows of an event
    deliveries,  \* external: how often the stream has delivered it
    inbox,       \* external: status of its row in search_event_inbox
    job          \* the event each handler works on and how far it is

vars == <<index, collected, orphans, call, fate, deliveries, inbox, job>>

NoJob == [event |-> NoEvent, stage |-> "idle"]

Init ==
    /\ StoreInit
    /\ fate = [e \in Event |-> "pending"]
    /\ deliveries = [e \in Event |-> 0]
    /\ inbox = [e \in Event |-> "none"]
    /\ job = [w \in Worker |-> NoJob]

Working(e) == \E w \in Worker : job[w].event = e

Stage(w, stage) == job' = [job EXCEPT ![w].stage = stage]

-----------------------------------------------------------------------------
(* The handler passed to ConsumeWithOptions.                               *)

\* First delivery, or redelivery after a refusal, a lost acknowledgement, a
\* crash or an expired ack wait.
Deliver(w, e) ==
    /\ fate[e] = "pending"
    /\ deliveries[e] < MaxDeliver
    /\ job[w].stage = "idle"
    /\ deliveries' = [deliveries EXCEPT ![e] = @ + 1]
    /\ job' = [job EXCEPT ![w] = [event |-> e, stage |-> "received"]]
    /\ UNCHANGED <<index, collected, orphans, call, fate, inbox>>

\* An unsupported schema version fails before the inbox is touched; so does
\* an inbox that cannot be reached.
RefuseEarly(w) ==
    /\ job[w].stage = "received"
    /\ Stage(w, "err")
    /\ UNCHANGED <<index, collected, orphans, call, fate, deliveries, inbox>>

\* inbox.Process finds a completed row and returns nil without the callback.
SkipCompleted(w) ==
    /\ job[w].stage = "received"
    /\ SchemaSupported(Envelope[job[w].event])
    /\ inbox[job[w].event] = "completed"
    /\ Stage(w, "ok")
    /\ UNCHANGED <<index, collected, orphans, call, fate, deliveries, inbox>>

\* inbox.Process records the attempt and runs applySearchEvent, which calls
\* the engine with the one item of an acceptable event.
Claim(w) ==
    /\ job[w].stage = "received"
    /\ job[w].event \in AcceptedEvent
    /\ inbox[job[w].event] # "completed"
    /\ inbox' = [inbox EXCEPT ![job[w].event] = "processing"]
    /\ Begin(w, <<EventWrite(job[w].event)>>)
    /\ Stage(w, "applying")
    /\ UNCHANGED <<index, collected, orphans, fate, deliveries>>

\* Mutant: the error of applySearchEvent is dropped.
RefuseEventSilently(w) ==
    /\ job[w].stage = "received"
    /\ SchemaSupported(Envelope[job[w].event])
    /\ ~ EventAccepts(Envelope[job[w].event])
    /\ inbox[job[w].event] # "completed"
    /\ inbox' = [inbox EXCEPT ![job[w].event] = "completed"]
    /\ Stage(w, "ok")
    /\ UNCHANGED <<index, collected, orphans, call, fate, deliveries>>

\* applySearchEvent returns an error without calling the engine.
RefuseEvent(w) ==
    /\ job[w].stage = "received"
    /\ SchemaSupported(Envelope[job[w].event])
    /\ ~ EventAccepts(Envelope[job[w].event])
    /\ inbox[job[w].event] # "completed"
    /\ \E status \in {"processing", "failed"} :
          inbox' = [inbox EXCEPT ![job[w].event] = status]
    /\ Stage(w, "err")
    /\ UNCHANGED <<index, collected, orphans, call, fate, deliveries>>

\* Mutant: the inbox row is completed whatever the engine returned.
CompleteAlways(w) ==
    /\ job[w].stage = "applying"
    /\ call[w].state \in {"ok", "error"}
    /\ inbox' = [inbox EXCEPT ![job[w].event] = "completed"]
    /\ call' = [call EXCEPT ![w] = NoCall]
    /\ Stage(w, "ok")
    /\ UNCHANGED <<index, collected, orphans, fate, deliveries>>

\* The engine returned nil and the inbox transaction commits.
Complete(w) ==
    /\ job[w].stage = "applying"
    /\ call[w].state = "ok"
    /\ inbox' = [inbox EXCEPT ![job[w].event] = "completed"]
    /\ call' = [call EXCEPT ![w] = NoCall]
    /\ Stage(w, "ok")
    /\ UNCHANGED <<index, collected, orphans, fate, deliveries>>

\* Mutant: the handler is stuck on an error of the engine.
GiveUpCommitOnly(w) ==
    /\ job[w].stage = "applying"
    /\ call[w].state = "ok"
    /\ inbox' = [inbox EXCEPT ![job[w].event] = IF @ = "completed" THEN @ ELSE "failed"]
    /\ call' = [call EXCEPT ![w] = NoCall]
    /\ Stage(w, "err")
    /\ UNCHANGED <<index, collected, orphans, fate, deliveries>>

\* The engine returned an error, or the commit failed after the engine had
\* written.  Recording the failure may fail as well; a row another handler
\* has completed stays completed.
GiveUp(w) ==
    /\ job[w].stage = "applying"
    /\ call[w].state \in {"ok", "error"}
    /\ \E status \in {inbox[job[w].event], "failed"} :
          inbox' = [inbox EXCEPT ![job[w].event] =
                       IF @ = "completed" THEN @ ELSE status]
    /\ call' = [call EXCEPT ![w] = NoCall]
    /\ Stage(w, "err")
    /\ UNCHANGED <<index, collected, orphans, fate, deliveries>>

\* Mutant: an event is acknowledged even when its handler failed.
AckAlways(w) ==
    /\ job[w].stage \in {"ok", "err"}
    /\ fate' = [fate EXCEPT ![job[w].event] = "acked"]
    /\ job' = [job EXCEPT ![w] = NoJob]
    /\ UNCHANGED <<index, collected, orphans, call, deliveries, inbox>>

\* The handler returned nil: the event is acknowledged.
Ack(w) ==
    /\ job[w].stage = "ok"
    /\ fate' = [fate EXCEPT ![job[w].event] = "acked"]
    /\ job' = [job EXCEPT ![w] = NoJob]
    /\ UNCHANGED <<index, collected, orphans, call, deliveries, inbox>>

\* The handler returned an error, or its acknowledgement is lost.
NoAck(w) ==
    /\ job[w].stage \in {"ok", "err"}
    /\ job' = [job EXCEPT ![w] = NoJob]
    /\ UNCHANGED <<index, collected, orphans, call, fate, deliveries, inbox>>

\* The handler's process dies.
Crash(w) ==
    /\ job[w].stage # "idle"
    /\ Vanish(w)
    /\ job' = [job EXCEPT ![w] = NoJob]
    /\ UNCHANGED <<fate, deliveries, inbox>>

\* After the last delivery the stream gives the event up (dead letter).
Exhaust(e) ==
    /\ fate[e] = "pending"
    /\ deliveries[e] = MaxDeliver
    /\ ~ Working(e)
    /\ fate' = [fate EXCEPT ![e] = "exhausted"]
    /\ UNCHANGED <<index, collected, orphans, call, deliveries, inbox, job>>

\* The retention cleaner deletes the row of a completed event.
CleanInbox(e) ==
    /\ inbox[e] = "completed"
    /\ inbox' = [inbox EXCEPT ![e] = "none"]
    /\ UNCHANGED <<index, collected, orphans, call, fate, deliveries, job>>

-----------------------------------------------------------------------------
(* BatchUpsertDocuments and BatchDeleteDocuments.  A request the checks    *)
(* refuse changes nothing.                                                 *)

BatchCall(c, b) ==
    /\ call[c].state = "idle"
    /\ b \in AcceptedBatch
    /\ Begin(c, BatchWrites(b))
    /\ UNCHANGED <<index, collected, orphans, fate, deliveries, inbox, job>>

BatchReturn(c) ==
    /\ call[c].state \in {"ok", "error"}
    /\ call' = [call EXCEPT ![c] = NoCall]
    /\ UNCHANGED <<index, collected, orphans, fate, deliveries, inbox, job>>

BatchCrash(c) ==
    /\ call[c].state # "idle"
    /\ Vanish(c)
    /\ UNCHANGED <<fate, deliveries, inbox, job>>

-----------------------------------------------------------------------------

EngineMove(c) == EngineStep(c) /\ UNCHANGED <<fate, deliveries, inbox, job>>

OpenSearchMove == OpenSearchStep /\ UNCHANGED <<fate, deliveries, inbox, job>>

HandlerStep(w) ==
    \/ RefuseEarly(w) \/ SkipCompleted(w) \/ Claim(w) \/ RefuseEvent(w)
    \/ Complete(w) \/ GiveUp(w) \/ Ack(w) \/ NoAck(w)

StreamStep(e) ==
    \/ \E w \in Worker : Deliver(w, e)
    \/ Exhaust(e)

Next ==
    \/ \E w \in Worker : HandlerStep(w) \/ Crash(w)
    \/ \E e \in Event : StreamStep(e) \/ CleanInbox(e)
    \/ \E c \in Caller : BatchReturn(c) \/ BatchCrash(c)
    \/ \E c \in Caller, b \in Batch : BatchCall(c, b)
    \/ \E c \in Client : EngineMove(c)
    \/ OpenSearchMove

\* Running handlers and engine calls go on, the stream redelivers what is
\* not acknowledged.  No fairness for crashes, losses, the cleaner, batch
\* RPCs or OpenSearch's own housekeeping.
Fairness ==
    /\ \A w \in Worker : WF_vars(HandlerStep(w)) /\ WF_vars(EngineMove(w))
    /\ \A e \in Event : WF_vars(StreamStep(e))

Spec == Init /\ [][Next]_vars /\ Fairness

-----------------------------------------------------------------------------
(* Properties.                                                             *)

EntryType == [version : Nat, body : {w.body : w \in Write} \cup {NoDocument}]

CallType == [state : {"idle", "busy", "ok", "error"}, writes : Seq(Write),
             position : Nat \ {0}, attempt : 0..MaxRetries]

JobType == [event : Event \cup {NoEvent},
            stage : {"idle", "received", "applying", "ok", "err"}]

\* Types; the client's retries and the stream's deliveries stay in bounds
\* (Config.MaxRetries, consumer_max_deliver).
TypeOK ==
    /\ index \in [Id -> EntryType]
    /\ collected \subseteq Id
    /\ orphans \subseteq Write
    /\ call \in [Client -> CallType]
    /\ fate \in [Event -> {"pending", "acked", "exhausted"}]
    /\ deliveries \in [Event -> 0..MaxDeliver]
    /\ inbox \in [Event -> {"none", "processing", "failed", "completed"}]
    /\ job \in [Worker -> JobType]

\* The index has reached a write: it holds that version or a later one.  Once
\* OpenSearch has dropped a deletion marker of the id, nothing is claimed.
Reached(write) ==
    write.id \in collected \/ index[write.id].version >= write.version

\* An event acknowledged to the stream, or recorded as completed in the
\* inbox, was acceptable and the index has reached it for good: no crash
\* between the index write and the inbox commit, no lost acknowledgement,
\* late request or concurrent batch makes the projection forget it.
SettledReached ==
    \A e \in Event :
        fate[e] = "acked" \/ inbox[e] = "completed" =>
            e \in AcceptedEvent /\ Reached(EventWrite(e))

\* The engine loop returns nil only when every item of the batch has been
\* reached; whatever fails later, the items before the current one stay.
PrefixReached ==
    \A c \in Client : \A i \in DOMAIN call[c].writes :
        i < call[c].position \/ call[c].state = "ok" => Reached(call[c].writes[i])

\* A document arrived as an upsert event of its own tenant or in a batch.
Sent(document) ==
    \/ \E e \in Event : /\ Envelope[e].schemaVersion = 1
                        /\ Envelope[e].eventType = "upserted"
                        /\ Envelope[e].tenantId = document.tenantId
                        /\ Envelope[e].document = document
    \/ \E b \in Batch : \E i \in DOMAIN b.items : b.items[i] = document

\* A document as an owner may send it: a source version, somebody to see it,
\* and never the whole tenant when reading it takes a permission.
SoundDocument(document) ==
    /\ Sent(document)
    /\ document.sourceVersion > 0
    /\ document.visibilityTokens # {}
    /\ document.permissionCode # "" =>
          \A t \in document.visibilityTokens : TrimSpace(t) # Broad(document.tenantId)

\* A document the index shows is one an owner sent, whole, under its own id
\* and source version.  Refused events, late requests, crashes and failing
\* batches leave no other trace (BatchUpsert, validateVisibility,
\* applySearchEvent).
IndexedSound ==
    \A id \in Id : index[id].body # NoDocument =>
        /\ SoundDocument(index[id].body)
        /\ id = IdOf(index[id].body)
        /\ index[id].version = index[id].body.sourceVersion

\* No write to the same record carries a higher version.
Newest(write) == \A w \in Write : w.id = write.id => w.version <= write.version

\* The index shows the version of a write.
Shown(write) ==
    \E w \in Write : /\ w.id = write.id
                     /\ w.version = write.version
                     /\ index[write.id] = Entry(w)

\* Once the newest event of a record is acknowledged the index shows that
\* version, in whatever order the older events arrive.
Converged ==
    \A e \in AcceptedEvent :
        fate[e] = "acked" /\ Newest(EventWrite(e)) /\ EventWrite(e).id \notin collected =>
            Shown(EventWrite(e))

\* The projection implements the promise of ConfirmedReplica.
Confirmed ==
    [id \in Id |-> {EventWrite(e).version :
                      e \in {x \in AcceptedEvent : fate[x] = "acked" /\ EventWrite(x).id = id}}]

Replica == INSTANCE ConfirmedReplica
               WITH view <- index, confirmed <- Confirmed, forgotten <- collected

ImplementsReplica == Replica!Init /\ [][Replica!Next]_(Replica!vars)

\* No event is left in between: each is acknowledged or given up.
EverySettled == \A e \in Event : <>(fate[e] # "pending")

\* What the Engine interface requires ("Implementations must apply
\* source_version monotonically so delayed events cannot overwrite newer
\* documents") with a deletion counted as the newer document it is: a
\* document in the index is never older than an acknowledged event.
NothingOlderReturns ==
    \A e \in AcceptedEvent :
        LET entry == index[EventWrite(e).id] IN
        fate[e] = "acked" /\ entry.body # NoDocument => entry.version >= EventWrite(e).version

SameRecord(a, b) ==
    /\ a.tenantId = b.tenantId /\ a.sourceService = b.sourceService
    /\ a.documentType = b.documentType /\ a.sourceId = b.sourceId

\* README, projection consistency: "The canonical OpenSearch ID is derived as
\* `tenant:source_service:document_type:source_id`; callers cannot select an
\* arbitrary collision key": what the index shows under the id of an
\* acknowledged event is a version of that event's own record.
RecordsApart ==
    \A e \in AcceptedEvent :
        LET shown == index[EventWrite(e).id].body IN
        fate[e] = "acked" /\ shown # NoDocument => SameRecord(shown, Envelope[e].document)
=============================================================================
