----------------------------- MODULE SearchStore -----------------------------
(***************************************************************************)
(* The engine of internal/searchstore/opensearch.go: Upsert and Delete     *)
(* send the items of a batch one by one, each as a PUT or DELETE with      *)
(* version_type=external_gte, through a client that retries, against an    *)
(* OpenSearch index (external) that may answer, refuse, or be cut off from *)
(* the client with the request still on its way.                           *)
(***************************************************************************)
EXTENDS SearchDocument

CONSTANTS
    Client,     \* those that call the engine concurrently: event handlers, batch RPCs
    Id,         \* OpenSearch document ids
    Write,      \* the writes accepted requests may make: [id, version, body]
    MaxRetries  \* opensearch.Config.MaxRetries (2 in the code)

ASSUME WriteAssumption ==
    \A w \in Write : w.id \in Id /\ w.version \in Nat \ {0}

ASSUME MaxRetriesAssumption == MaxRetries \in Nat

VARIABLES
    index,      \* external: the version and body OpenSearch keeps for each id;
                \* a deleted document keeps its version with body NoDocument
    collected,  \* history: ids whose deletion marker OpenSearch has dropped
    orphans,    \* requests the client gave up on that may still reach OpenSearch
    call        \* each client's call of Upsert or Delete

Absent == [version |-> 0, body |-> NoDocument]

Entry(write) == [version |-> write.version, body |-> write.body]

NoCall == [state |-> "idle", writes |-> <<>>, position |-> 1, attempt |-> 0]

StoreInit ==
    /\ index = [id \in Id |-> Absent]
    /\ collected = {}
    /\ orphans = {}
    /\ call = [c \in Client |-> NoCall]

Current(c) == call[c].writes[call[c].position]

\* Mutant: the version parameters are missing.
SupersedesAlways(write, entry) == TRUE

\* Version control of external_gte: an older version is refused with 409.
Supersedes(write, entry) == write.version >= entry.version

Applied(write) ==
    IF Supersedes(write, index[write.id])
    THEN [index EXCEPT ![write.id] = Entry(write)]
    ELSE index

\* The loop sends the first attempt for the item at a position.
AtItem(writes, position) ==
    [state |-> "busy", writes |-> writes, position |-> position, attempt |-> 0]

\* Upsert or Delete is called with the items of an accepted batch.
Begin(c, writes) == call' = [call EXCEPT ![c] = AtItem(writes, 1)]

\* Mutant: the loop returns after the first item.
ProceedOnce(c) == call' = [call EXCEPT ![c].state = "ok"]

\* The loop goes on with the next item, or returns nil after the last.
Proceed(c) ==
    call' = [call EXCEPT ![c] =
                IF call[c].position = Len(call[c].writes)
                THEN [call[c] EXCEPT !.state = "ok"]
                ELSE AtItem(call[c].writes, call[c].position + 1)]

\* OpenSearch answers the current attempt: 2xx, 409 (skipped by both loops)
\* or, for a DELETE, 404 (ignored).
Answer(c) ==
    /\ call[c].state = "busy"
    /\ index' = Applied(Current(c))
    /\ Proceed(c)
    /\ UNCHANGED <<collected, orphans>>

\* An attempt the client gives up on was refused, or is lost, or may still
\* arrive.
GiveUpAttempt(c) ==
    /\ call[c].state = "busy"
    /\ orphans' \in {orphans, orphans \cup {Current(c)}}
    /\ UNCHANGED <<index, collected>>

\* Mutant: one retry too many.
RetryOnceMore(c) ==
    /\ GiveUpAttempt(c)
    /\ call[c].attempt <= MaxRetries
    /\ call' = [call EXCEPT ![c].attempt = @ + 1]

\* A timeout or a 502, 503 or 504 is retried by the client's transport.
Retry(c) ==
    /\ GiveUpAttempt(c)
    /\ call[c].attempt < MaxRetries
    /\ call' = [call EXCEPT ![c].attempt = @ + 1]

\* Retries used up, context done or another status: the loop returns the
\* error, the items before the current one stay applied.
Fail(c) ==
    /\ GiveUpAttempt(c)
    /\ call' = [call EXCEPT ![c].state = "error"]

\* The process dies during the call.
Vanish(c) ==
    /\ orphans' \in {orphans} \cup
                    (IF call[c].state = "busy" THEN {orphans \cup {Current(c)}} ELSE {})
    /\ call' = [call EXCEPT ![c] = NoCall]
    /\ UNCHANGED <<index, collected>>

\* A request given up on reaches OpenSearch, once or, retries having left
\* several copies behind, more often.
ApplyOrphan(write) ==
    /\ write \in orphans
    /\ index' = Applied(write)
    /\ UNCHANGED <<collected, orphans, call>>

\* OpenSearch drops the version of a deleted document after
\* index.gc_deletes, which ensureIndex leaves at its default of 60 s.
CollectDeleted(id) ==
    /\ index[id].body = NoDocument
    /\ index[id].version > 0
    /\ index' = [index EXCEPT ![id] = Absent]
    /\ collected' = collected \cup {id}
    /\ UNCHANGED <<orphans, call>>

\* Steps the engine's callers have no part in.
OpenSearchStep ==
    \/ \E w \in Write : ApplyOrphan(w)
    \/ \E id \in Id : CollectDeleted(id)

EngineStep(c) == Answer(c) \/ Retry(c) \/ Fail(c)
=============================================================================
