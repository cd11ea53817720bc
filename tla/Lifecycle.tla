------------------------------ MODULE Lifecycle ------------------------------
(***************************************************************************)
(* Replicas of the service starting, serving and stopping against the same *)
(* database and the same OpenSearch index: the fx application of           *)
(* internal/app/app.go with the hooks its parts append, as far as the      *)
(* configuration they share switches them on.  Schema creation             *)
(* (internal/migration), index creation (ensureIndex), the projection's    *)
(* goroutines and the two servers start in this order and stop in the      *)
(* reverse one.  fx, PostgreSQL and OpenSearch are external.               *)
(***************************************************************************)
EXTENDS Configuration

CONSTANTS
    Replica,
    NoReplica,  \* holder of a free lock
    Deployment  \* for the name of a deployment, the sources of its configuration

ASSUME ReplicaAssumption == NoReplica \notin Replica

VARIABLES
    deployment, \* the name of this one
    config,  \* what every replica of it loads
    schema,  \* external: the migration schema exists
    lock,    \* external: holder of the advisory lock on schema creation
    index,   \* external: "none", "mapped" (as ensureIndex creates it) or "auto"
             \* (created by OpenSearch itself on the first write)
    late,    \* external: an abandoned request to create the index may arrive
    pc,      \* where each replica is between "down" and "running"
    up,      \* what each replica has open: resources, consumer, listeners
    work,    \* what each replica is doing: events, clean-up, RPCs, requests
    fault,   \* history: a dependency has failed or a process was killed
    failed   \* history: replicas whose start has failed

vars == <<deployment, config, schema, lock, index, late, pc, up, work, fault, failed>>

Starting == {"schema", "creating", "insert", "commit", "construct", "inspect", "create",
             "confirm", "project", "grpc", "http"}

Stopping == {"stopHttp", "stopGrpc", "stopProjection", "close"}

Init ==
    /\ deployment \in DOMAIN Deployment
    /\ config = LoadWithProfile(Deployment[deployment])
    /\ schema = FALSE
    /\ lock = NoReplica
    /\ index = "none"
    /\ late = FALSE
    /\ pc = [r \in Replica |-> "down"]
    /\ up = [r \in Replica |-> {}]
    /\ work = [r \in Replica |-> {}]
    /\ fault = FALSE
    /\ failed = {}

At(r, from, to) == pc[r] = from /\ pc' = [pc EXCEPT ![r] = to]

\* main: a process that is refused its configuration ends at once.
Boot(r) ==
    /\ At(r, "down", CASE config = Refused -> "down"
                      [] config # Refused /\ CreatesSchema(config) -> "schema"
                      [] OTHER -> "construct")
    /\ UNCHANGED <<deployment, config, schema, lock, index, late, up, work, fault, failed>>

-----------------------------------------------------------------------------
(* runStartupMigration: createSchema in one transaction, then the          *)
(* migrator, which has a lock of its own.                                  *)

\* Mutant: no advisory lock.
LockSchemaFreely(r) ==
    /\ At(r, "schema", "creating")
    /\ UNCHANGED <<deployment, config, schema, lock, index, late, up, work, fault, failed>>

\* pg_advisory_xact_lock
LockSchema(r) ==
    /\ At(r, "schema", "creating")
    /\ lock = NoReplica
    /\ lock' = r
    /\ UNCHANGED <<deployment, config, schema, index, late, up, work, fault, failed>>

\* CREATE SCHEMA IF NOT EXISTS looks for the schema before it inserts one.
LookForSchema(r) ==
    /\ At(r, "creating", IF schema THEN "commit" ELSE "insert")
    /\ UNCHANGED <<deployment, config, schema, lock, index, late, up, work, fault, failed>>

\* Another transaction has committed the schema between look and insert,
\* which then fails on the unique name.
Raced(r) == pc[r] = "insert" /\ schema

\* Mutant: a lock of the session, which the end of the transaction leaves.
CommitSchemaHolding(r) ==
    /\ pc[r] \in {"insert", "commit"}
    /\ pc' = [pc EXCEPT ![r] = IF Raced(r) THEN "down" ELSE "construct"]
    /\ failed' = IF Raced(r) THEN failed \cup {r} ELSE failed
    /\ schema' = TRUE
    /\ UNCHANGED <<deployment, config, lock, index, late, up, work, fault>>

\* The end of the transaction, which releases the lock.
CommitSchema(r) ==
    /\ pc[r] \in {"insert", "commit"}
    /\ pc' = [pc EXCEPT ![r] = IF Raced(r) THEN "down" ELSE "construct"]
    /\ failed' = IF Raced(r) THEN failed \cup {r} ELSE failed
    /\ schema' = TRUE
    /\ lock' = IF lock = r THEN NoReplica ELSE lock
    /\ UNCHANGED <<deployment, config, index, late, up, work, fault>>

-----------------------------------------------------------------------------
(* Constructors and OnStart hooks.                                         *)

\* newDatabase, newRedis, NewRegistry, newBus, and those that only refuse.
Construct(r) ==
    /\ At(r, "construct", IF Builds(config) THEN "inspect" ELSE "down")
    /\ up' = [up EXCEPT ![r] = IF Builds(config) THEN Opened(config) ELSE {}]
    /\ failed' = IF Builds(config) THEN failed ELSE failed \cup {r}
    /\ UNCHANGED <<deployment, config, schema, lock, index, late, work, fault>>

\* Mutant: a missing index is good enough.
InspectIndexLoosely(r) ==
    /\ At(r, "inspect", "project")
    /\ UNCHANGED <<deployment, config, schema, lock, index, late, up, work, fault, failed>>

\* ensureIndex: HEAD answers 200 or 404.
InspectIndex(r) ==
    /\ At(r, "inspect", IF index = "none" THEN "create" ELSE "project")
    /\ UNCHANGED <<deployment, config, schema, lock, index, late, up, work, fault, failed>>

\* PUT creates the index, or answers 400 because another replica has.
CreateIndex(r) ==
    /\ At(r, "create", IF index = "none" THEN "project" ELSE "confirm")
    /\ index' = IF index = "none" THEN "mapped" ELSE index
    /\ UNCHANGED <<deployment, config, schema, lock, late, up, work, fault, failed>>

\* confirmIndex
ConfirmIndex(r) ==
    /\ At(r, "confirm", IF index = "none" THEN "close" ELSE "project")
    /\ failed' = IF index = "none" THEN failed \cup {r} ELSE failed
    /\ UNCHANGED <<deployment, config, schema, lock, index, late, up, work, fault>>

\* startSearchProjection starts the consumer and the cleaner if there is a
\* bus, and fails if that has no inbox.
StartProjection(r) ==
    LET orphan == "bus" \in up[r] /\ "db" \notin up[r] IN
    /\ At(r, "project", IF orphan THEN "close" ELSE "grpc")
    /\ up' = [up EXCEPT ![r] = IF {"bus", "db"} \subseteq @ THEN @ \cup {"consumer"} ELSE @]
    /\ failed' = IF orphan THEN failed \cup {r} ELSE failed
    /\ UNCHANGED <<deployment, config, schema, lock, index, late, work, fault>>

ListenGrpc(r) ==
    /\ At(r, "grpc", "http")
    /\ up' = [up EXCEPT ![r] = IF On(config, "grpc") THEN @ \cup {"grpc"} ELSE @]
    /\ UNCHANGED <<deployment, config, schema, lock, index, late, work, fault, failed>>

ListenHttp(r) ==
    /\ At(r, "http", "running")
    /\ up' = [up EXCEPT ![r] = @ \cup {"http"}]
    /\ UNCHANGED <<deployment, config, schema, lock, index, late, work, fault, failed>>

\* Where a failing start goes on.
RollbackFrom(stage) ==
    CASE stage = "http" -> "stopGrpc"
      [] stage = "grpc" -> "stopProjection"
      [] stage \in {"inspect", "create", "confirm"} -> "close"
      [] OTHER -> "down"

\* A step of the start fails.  A constructor's error ends the process, an
\* OnStart hook's error stops what has been started, in reverse order.  What
\* was asked of PostgreSQL or OpenSearch last may have happened all the same.
StartFails(r) ==
    /\ pc[r] \in Starting \ {"project"}
    /\ pc[r] = "grpc" => On(config, "grpc")
    /\ fault' = TRUE
    /\ failed' = failed \cup {r}
    /\ pc' = [pc EXCEPT ![r] = RollbackFrom(pc[r])]
    /\ up' = [up EXCEPT ![r] = CASE pc[r] = "http" -> @ \ {"grpc"}
                                 [] pc[r] = "grpc" -> @ \ {"consumer"}
                                 [] OTHER -> @]
    /\ lock' = IF lock = r THEN NoReplica ELSE lock
    /\ schema' \in {schema, pc[r] = "insert" \/ schema}
    /\ late' \in {late, pc[r] = "create" \/ late}
    /\ UNCHANGED <<deployment, config, index, work>>

\* A request to create the index that its sender gave up on arrives.
LateCreate ==
    /\ late
    /\ late' = FALSE
    /\ index' = IF index = "none" THEN "mapped" ELSE index
    /\ UNCHANGED <<deployment, config, schema, lock, pc, up, work, fault, failed>>

-----------------------------------------------------------------------------
(* Serving.                                                                *)

\* What work of a kind uses until it ends.
Needs(kind) ==
    CASE kind = "event" -> {"db", "bus"}
      [] kind = "clean" -> {"db"}
      [] kind = "grpc"  -> {"registry"} \cup {x \in {"redis"} : On(config, "idempotency")}
      [] kind = "http"  -> {"registry"} \cup {x \in {"redis"} : On(config, "rateLimit")}

\* What has to be open for work of a kind to begin.
Source(kind) == IF kind \in {"event", "clean"} THEN "consumer" ELSE kind

BeginWork(r, kind) ==
    /\ Source(kind) \in up[r]
    /\ work' = [work EXCEPT ![r] = @ \cup {kind}]
    /\ UNCHANGED <<deployment, config, schema, lock, index, late, pc, up, fault, failed>>

EndWork(r, kind) ==
    /\ kind \in work[r]
    /\ work' = [work EXCEPT ![r] = @ \ {kind}]
    /\ UNCHANGED <<deployment, config, schema, lock, index, late, pc, up, fault, failed>>

\* An event or a batch RPC writes; OpenSearch creates a missing index.
WriteDocument(r) ==
    /\ work[r] \cap {"event", "grpc"} # {}
    /\ index' = IF index = "none" THEN "auto" ELSE index
    /\ UNCHANGED <<deployment, config, schema, lock, late, pc, up, work, fault, failed>>

-----------------------------------------------------------------------------
(* OnStop hooks, in reverse order.                                         *)

\* SIGTERM: Shutdown closes the HTTP listener first.
Signal(r) ==
    /\ At(r, "running", "stopHttp")
    /\ up' = [up EXCEPT ![r] = @ \ {"http"}]
    /\ UNCHANGED <<deployment, config, schema, lock, index, late, work, fault, failed>>

\* Shutdown returns when no request is left; GracefulStop closes the listener.
StopHttp(r) ==
    /\ At(r, "stopHttp", "stopGrpc")
    /\ "http" \notin work[r]
    /\ up' = [up EXCEPT ![r] = @ \ {"grpc"}]
    /\ UNCHANGED <<deployment, config, schema, lock, index, late, work, fault, failed>>

\* GracefulStop returns when no RPC is left; cancel() ends the consumer.
StopGrpc(r) ==
    /\ At(r, "stopGrpc", "stopProjection")
    /\ "grpc" \notin work[r]
    /\ up' = [up EXCEPT ![r] = @ \ {"consumer"}]
    /\ UNCHANGED <<deployment, config, schema, lock, index, late, work, fault, failed>>

\* Mutant: OnStop does not wait for the goroutines.
StopProjectionAtOnce(r) ==
    /\ At(r, "stopProjection", "close")
    /\ UNCHANGED <<deployment, config, schema, lock, index, late, up, work, fault, failed>>

\* worker.Wait()
StopProjection(r) ==
    /\ At(r, "stopProjection", "close")
    /\ work[r] \cap {"event", "clean"} = {}
    /\ UNCHANGED <<deployment, config, schema, lock, index, late, up, work, fault, failed>>

\* The stop hooks of bus, registry, Redis and database.
Close(r) ==
    /\ At(r, "close", "down")
    /\ up' = [up EXCEPT ![r] = {}]
    /\ UNCHANGED <<deployment, config, schema, lock, index, late, work, fault, failed>>

\* The process ends and takes with it what it had open.
Exit(r) ==
    /\ pc' = [pc EXCEPT ![r] = "down"]
    /\ up' = [up EXCEPT ![r] = {}]
    /\ work' = [work EXCEPT ![r] = {}]

\* Mutant: only the hook of the gRPC server watches the deadline.
StopTimeoutGrpcOnly(r) ==
    /\ pc[r] = "stopGrpc"
    /\ Exit(r)
    /\ UNCHANGED <<deployment, config, schema, lock, index, late, fault, failed>>

\* fx.StopTimeout: the application ends whatever its hooks wait for; the gRPC
\* server's hook stops it without grace.
StopTimeout(r) ==
    /\ pc[r] \in Stopping
    /\ Exit(r)
    /\ UNCHANGED <<deployment, config, schema, lock, index, late, fault, failed>>

Kill(r) ==
    /\ pc[r] # "down"
    /\ Exit(r)
    /\ lock' = IF lock = r THEN NoReplica ELSE lock
    /\ schema' \in {schema, pc[r] = "insert" \/ schema}
    /\ late' \in {late, pc[r] = "create" \/ late}
    /\ fault' = TRUE
    /\ UNCHANGED <<deployment, config, index, failed>>

-----------------------------------------------------------------------------

StartStep(r) ==
    \/ LockSchema(r) \/ LookForSchema(r) \/ CommitSchema(r) \/ Construct(r)
    \/ InspectIndex(r) \/ CreateIndex(r) \/ ConfirmIndex(r)
    \/ StartProjection(r) \/ ListenGrpc(r) \/ ListenHttp(r)

StopStep(r) == StopHttp(r) \/ StopGrpc(r) \/ StopProjection(r) \/ Close(r)

Kinds == {"event", "clean", "grpc", "http"}

Next ==
    \/ LateCreate
    \/ \E r \in Replica :
          \/ Boot(r) \/ StartStep(r) \/ StartFails(r) \/ Signal(r) \/ StopStep(r)
          \/ StopTimeout(r) \/ Kill(r) \/ WriteDocument(r)
          \/ \E kind \in Kinds : BeginWork(r, kind) \/ EndWork(r, kind)

\* A replica that has begun to start or to stop goes on, PostgreSQL queues
\* those that wait for the lock, the stop timeout passes.  Nobody promises
\* that work ends.
Fairness ==
    \A r \in Replica :
        /\ WF_vars(StartStep(r)) /\ WF_vars(StopStep(r)) /\ WF_vars(StopTimeout(r))
        /\ SF_vars(LockSchema(r))

Spec == Init /\ [][Next]_vars /\ Fairness

-----------------------------------------------------------------------------
(* Properties.                                                             *)

\* Types; the advisory lock is held only by a replica inside createSchema.
TypeOK ==
    /\ schema \in BOOLEAN /\ late \in BOOLEAN /\ fault \in BOOLEAN
    /\ lock = NoReplica \/ \E r \in Replica : lock = r /\ pc[r] \in {"creating", "insert", "commit"}
    /\ index \in {"none", "mapped", "auto"}
    /\ pc \in [Replica -> {"down", "running"} \cup Starting \cup Stopping]
    /\ up \in [Replica -> SUBSET {"registry", "db", "redis", "bus", "consumer", "grpc", "http"}]
    /\ deployment \in DOMAIN Deployment
    /\ work \in [Replica -> SUBSET Kinds]
    /\ failed \subseteq Replica

\* The index is the one ensureIndex describes: no replica, however its start
\* interleaves with the others', writes a document before the index exists
\* and leaves its mapping to OpenSearch.
MappedIndex == index # "auto"

\* Whatever is still being worked on has the database, the event bus and the
\* connections to other services open, also during a rollback or a shutdown.
ResourcesOutliveWork ==
    \A r \in Replica : \A kind \in work[r] : Opened(config) \cup Needs(kind) \subseteq up[r]

\* Replicas that start together do not make each other fail: the advisory
\* lock serialises schema creation, losing the race for the index is
\* confirmed, not reported (createSchema, ensureIndex), and what Validate
\* accepts suffices for every hook.
NoStartRace == ~ fault /\ config # Refused /\ Builds(config) => failed = {}

\* A replica whose active profile is production, whichever source names it
\* and in whatever spelling, never opens anything with the conveniences
\* Validate forbids there, however the other sources are layered over each
\* other; elsewhere credentials still never leave unprotected by accident.
ProfileEnforced ==
    (\E r \in Replica : up[r] # {}) =>
        /\ ActiveProfile(Deployment[deployment]).name = "production" =>
             /\ On(config, "grpc") => On(config, "grpcTls")
             /\ ~ config.reflection /\ ~ config.skipVerify /\ config.authorization
             /\ config.swagger => config.swaggerAuth
             /\ Verifier(config) = "jwks"
             /\ \A u \in Upstreams(config) :
                    Upstream(config, u).auth # "" => Upstream(config, u).tls
        /\ \A u \in Upstreams(config) :
             Upstream(config, u).auth # "" =>
                 Upstream(config, u).tls # Upstream(config, u).insecure

\* The projection looks for its inbox in the database and schema the startup
\* migration has put it in, for either engine (LoadWithProfile hands both to
\* the migration; withMigrationOptions, database.Open, newSearchInbox).
InboxWhereMigrated ==
    \A r \in Replica :
        "consumer" \in up[r] /\ On(config, "migration")
            /\ (config.dbType = "mysql" <=> config.urlScheme = "mysql") =>
          MigrationTarget(config) = InboxTarget(config)

\* A start comes to an end, up or down, however many replicas start at once.
StartEnds == \A r \in Replica : pc[r] \in {"schema", "construct"} ~> pc[r] \in {"running", "down"}

\* A replica told to stop ends, even if a handler never returns.
Stops == \A r \in Replica : pc[r] = "stopHttp" ~> pc[r] = "down"
=============================================================================
