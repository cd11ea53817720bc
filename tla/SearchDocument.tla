--------------------------- MODULE SearchDocument ---------------------------
(***************************************************************************)
(* Documents, document keys and event envelopes as the service receives    *)
(* them, and the pure checks every write passes before the engine is       *)
(* called: internal/search/service.go (BatchUpsert, BatchDelete,           *)
(* validateVisibility, CanonicalID) and applySearchEvent of                *)
(* internal/app/search_projection.go.                                      *)
(*                                                                         *)
(* An identifier (tenant, source service, document type, source id, name   *)
(* in a token) is the sequence of its segments between colons: "a:b" is    *)
(* <<"a", "b">>, and the empty string is the one empty segment.  Joining   *)
(* identifiers with ":" is then concatenation.                             *)
(***************************************************************************)
EXTENDS Integers, Sequences

CONSTANTS
    NoDocument,   \* the nil document of a protobuf message, the body of a deleted one
    MaxBatchSize  \* const maxBatchSize (500 in the code, small in the models)

ASSUME MaxBatchSizeAssumption == MaxBatchSize \in Nat \ {0}

Empty == <<"">>

\* strings.Join of the four parts with ":".
CanonicalID(tenantId, sourceService, documentType, sourceId) ==
    tenantId \o sourceService \o documentType \o sourceId

IdOf(document) == CanonicalID(document.tenantId, document.sourceService,
                              document.documentType, document.sourceId)

-----------------------------------------------------------------------------
(* Visibility tokens: kind is what stands before the first colon, name the *)
(* rest, padded whether white space surrounds the token.                   *)

TokenPrefixes == {"user", "membership", "role", "service-account"}

TrimSpace(token) == [token EXCEPT !.padded = FALSE]

\* "tenant:<id>:*"
Broad(tenantId) == [kind |-> "tenant", name |-> tenantId, padded |-> FALSE]

ValidToken(token, document) ==
    \/ TrimSpace(token) = Broad(document.tenantId)
    \/ token.kind \in TokenPrefixes /\ token.name # Empty

ValidVisibility(document) ==
    \A token \in document.visibilityTokens :
        /\ ValidToken(token, document)
        /\ document.permissionCode # "" => TrimSpace(token) # Broad(document.tenantId)

-----------------------------------------------------------------------------
(* A document key names a source record and carries a source version.  The *)
(* batch operations check every item before the engine sees the first.     *)

CompleteKey(key) ==
    /\ key # NoDocument
    /\ Empty \notin {key.tenantId, key.sourceService, key.documentType, key.sourceId}
    /\ key.sourceVersion > 0

CompleteDocument(document) ==
    /\ CompleteKey(document)
    /\ document.visibilityTokens # {}

BatchSizeOK(batch) == Len(batch) \in 1..MaxBatchSize

\* Mutant: only the first item is checked.
UpsertAcceptsFirst(documents) ==
    /\ BatchSizeOK(documents)
    /\ CompleteDocument(documents[1]) /\ ValidVisibility(documents[1])

UpsertAccepts(documents) ==
    /\ BatchSizeOK(documents)
    /\ \A i \in DOMAIN documents :
          CompleteDocument(documents[i]) /\ ValidVisibility(documents[i])

DeleteAccepts(keys) ==
    /\ BatchSizeOK(keys)
    /\ \A i \in DOMAIN keys : CompleteKey(keys[i])

\* The one PUT or DELETE the engine sends for an item, with
\* version_type=external_gte and the source version.
UpsertWrite(document) ==
    [id |-> IdOf(document), version |-> document.sourceVersion, body |-> document]

DeleteWrite(key) ==
    [id |-> IdOf(key), version |-> key.sourceVersion, body |-> NoDocument]

-----------------------------------------------------------------------------
(* A batch is an operation with its items; an envelope adds what the event *)
(* bus carries.  applySearchEvent hands the service a batch of one.        *)

BatchAccepts(batch) ==
    \/ batch.operation = "upsert" /\ UpsertAccepts(batch.items)
    \/ batch.operation = "delete" /\ DeleteAccepts(batch.items)

BatchWrites(batch) ==
    [i \in DOMAIN batch.items |-> IF batch.operation = "upsert"
                                  THEN UpsertWrite(batch.items[i])
                                  ELSE DeleteWrite(batch.items[i])]

EventBatch(envelope) ==
    [operation |-> IF envelope.eventType = "upserted" THEN "upsert" ELSE "delete",
     items     |-> <<envelope.document>>]

SchemaSupported(envelope) == envelope.schemaVersion = 1

\* Mutant: the tenant of the envelope is not compared.
EventAcceptsAnyTenant(envelope) ==
    /\ envelope.eventType \in {"upserted", "deleted"}
    /\ envelope.decodes
    /\ envelope.document # NoDocument
    /\ BatchAccepts(EventBatch(envelope))

EventAccepts(envelope) ==
    /\ envelope.eventType \in {"upserted", "deleted"}
    /\ envelope.decodes
    /\ envelope.document # NoDocument
    /\ envelope.tenantId = envelope.document.tenantId
    /\ BatchAccepts(EventBatch(envelope))
=============================================================================
