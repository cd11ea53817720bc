---------------------------- MODULE MCProjection ----------------------------
(* Instances of Projection for TLC.                                        *)
EXTENDS Projection, TLC

CONSTANTS w1, w2, c1

MCWorkers == {w1, w2}
MCCallers == {c1}

Padded(token) == [token EXCEPT !.padded = TRUE]
UserToken == [kind |-> "user", name |-> <<"u1">>, padded |-> FALSE]

\* A document of tenant t1, told apart by its source id and source version.
Doc(sourceId, version) ==
    [tenantId |-> <<"t1">>, sourceService |-> <<"svc">>, documentType |-> <<"note">>,
     sourceId |-> <<sourceId>>, sourceVersion |-> version,
     visibilityTokens |-> {UserToken}, permissionCode |-> ""]

Key(sourceId, version) ==
    [tenantId |-> <<"t1">>, sourceService |-> <<"svc">>, documentType |-> <<"note">>,
     sourceId |-> <<sourceId>>, sourceVersion |-> version]

\* Reading it takes a permission, and everybody in the tenant may.
ProtectedBroad ==
    [Doc("a", 7) EXCEPT !.permissionCode = "read", !.visibilityTokens = {Padded(Broad(<<"t1">>))}]

Published(eventType, document) ==
    [schemaVersion |-> 1, eventType |-> eventType, tenantId |-> <<"t1">>,
     decodes |-> TRUE, document |-> document]

\* The life of one record, and events the handler must refuse.
MCEnvelopes ==
    "up1" :> Published("upserted", Doc("a", 1)) @@
    "del2" :> Published("deleted", Key("a", 2)) @@
    "up3" :> Published("upserted", Doc("a", 3)) @@
    "schema2" :> [Published("upserted", Doc("a", 4)) EXCEPT !.schemaVersion = 2] @@
    "tenant" :> [Published("upserted", Doc("a", 5)) EXCEPT !.tenantId = <<"t2">>] @@
    "broad" :> Published("upserted", ProtectedBroad) @@
    "thread" :> Published("upserted", [Doc("a", 1) EXCEPT !.documentType = <<"note", "thread">>]) @@
    "inthread" :> Published("upserted", [Doc("a", 2) EXCEPT !.sourceId = <<"thread", "a">>])

MCEnvelope == [e \in Event |-> MCEnvelopes[e]]

\* A backfill of two records, the deletion of one and batches to refuse.
MCBatches ==
    {[operation |-> "upsert", items |-> <<Doc("a", 1), Doc("b", 2)>>],
     [operation |-> "delete", items |-> <<Key("a", 2)>>],
     [operation |-> "upsert", items |-> <<Doc("b", 9), ProtectedBroad>>],
     [operation |-> "upsert", items |-> <<>>]}
MCNoBatches == {}

MCWrites == {EventWrite(e) : e \in AcceptedEvent}
              \cup UNION {{BatchWrites(b)[i] : i \in DOMAIN b.items} : b \in AcceptedBatch}
MCIds == {w.id : w \in MCWrites}
MCClients == Worker \cup Caller
=============================================================================
