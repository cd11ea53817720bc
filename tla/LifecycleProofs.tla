--------------------------- MODULE LifecycleProofs ---------------------------
(***************************************************************************)
(* Proofs about Lifecycle, for any replicas and deployments.  The argument *)
(* places every replica: what it has open and works on follows from where  *)
(* it is between "down" and "running", only the holder of the advisory     *)
(* lock is inside createSchema, and the index exists from the moment a     *)
(* replica has passed ensureIndex.                                         *)
(***************************************************************************)
EXTENDS Lifecycle, TLAPS

Resources == {"registry", "db", "redis", "bus"}

\* Places of a replica between its first hook and its last.
Within == {"inspect", "create", "confirm", "project", "grpc", "http", "running"} \cup Stopping

\* The advisory lock is held by the replica inside createSchema, whose
\* CREATE finds what its look has found.
Alone(r) ==
    /\ lock = r <=> pc[r] \in {"creating", "insert", "commit"}
    /\ pc[r] = "insert" => ~ schema

Indexed(r) ==
    pc[r] \in {"confirm", "project", "grpc", "http", "running", "stopHttp", "stopGrpc", "stopProjection"}
      => index # "none"

\* What is open, and under which configuration.
Equipped(r) ==
    /\ pc[r] # "down" => config # Refused
    /\ pc[r] \notin Within => up[r] = {}
    /\ pc[r] \in Within => Builds(config) /\ up[r] \cap Resources = Opened(config)

\* Where listeners and consumer may be open, and where their work may last.
Placed(r) ==
    /\ "http" \in up[r] => pc[r] = "running"
    /\ "grpc" \in up[r] => pc[r] \in {"http", "running", "stopHttp"}
    /\ "consumer" \in up[r] =>
          /\ pc[r] \in {"grpc", "http", "running", "stopHttp", "stopGrpc"}
          /\ {"bus", "db"} \subseteq Opened(config)
    /\ "http" \in work[r] => pc[r] \in {"running", "stopHttp"}
    /\ "grpc" \in work[r] => pc[r] \in {"http", "running", "stopHttp", "stopGrpc"}
    /\ work[r] \cap {"event", "clean"} # {} =>
          /\ pc[r] \in {"grpc", "http", "running", "stopHttp", "stopGrpc", "stopProjection"}
          /\ {"bus", "db"} \subseteq Opened(config)

Configured == config = LoadWithProfile(Deployment[deployment])

IInv ==
    /\ Configured /\ TypeOK /\ MappedIndex /\ NoStartRace
    /\ \A r \in Replica : Alone(r) /\ Indexed(r) /\ Equipped(r) /\ Placed(r)

-----------------------------------------------------------------------------
(* What the configuration promises.                                        *)

\* LoadWithProfile returns only what Validate has accepted.
LEMMA ConfigValid ==
    ASSUME Configured, config # Refused
    PROVE  /\ config = Loaded(Deployment[deployment])
           /\ Validate(config)
BY DEF Configured, LoadWithProfile

\* What the constructors open are resources.
LEMMA OpenedResources == Opened(config) \subseteq Resources /\ "registry" \in Opened(config)
BY DEF Opened, Resources

\* The event bus comes with a database, rate limits and idempotency with Redis.
LEMMA OpenedTogether ==
    ASSUME Configured, config # Refused
    PROVE  /\ "bus" \in Opened(config) => "db" \in Opened(config)
           /\ On(config, "rateLimit") \/ On(config, "idempotency") => "redis" \in Opened(config)
<1>1. \A r \in Requires : On(config, r[1]) => On(config, r[2])
  BY ConfigValid DEF Validate
<1>2. /\ On(config, "eventBus") => On(config, "database")
      /\ On(config, "rateLimit") => On(config, "redis")
      /\ On(config, "idempotency") => On(config, "redis")
  BY <1>1 DEF Requires
<1> QED
  BY <1>2 DEF Opened

-----------------------------------------------------------------------------
(* The invariant.                                                          *)

\* Types: every action keeps them.
LEMMA TypeStep == TypeOK /\ [Next]_vars => TypeOK'
<1> SUFFICES ASSUME TypeOK, [Next]_vars PROVE TypeOK'
  OBVIOUS
<1> USE ReplicaAssumption DEF TypeOK, At, Starting, Stopping, Kinds
<1>1. CASE LateCreate
  BY <1>1 DEF LateCreate
<1>2. ASSUME NEW r \in Replica, Boot(r) \/ StartStep(r) PROVE TypeOK'
  <2>1. CASE Boot(r)
    BY <2>1 DEF Boot
  <2>2. CASE LockSchema(r) \/ LookForSchema(r) \/ CommitSchema(r)
    BY <2>2 DEF LockSchema, LookForSchema, CommitSchema, Raced
  <2>3. CASE Construct(r)
    BY <2>3, OpenedResources DEF Construct, Resources
  <2>4. CASE InspectIndex(r) \/ CreateIndex(r) \/ ConfirmIndex(r)
    BY <2>4 DEF InspectIndex, CreateIndex, ConfirmIndex
  <2>5. CASE StartProjection(r)
    BY <2>5 DEF StartProjection
  <2>6. CASE ListenGrpc(r) \/ ListenHttp(r)
    BY <2>6 DEF ListenGrpc, ListenHttp
  <2> QED
    BY <1>2, <2>1, <2>2, <2>3, <2>4, <2>5, <2>6 DEF StartStep
<1>3. ASSUME NEW r \in Replica, StartFails(r) PROVE TypeOK'
  BY <1>3 DEF StartFails, RollbackFrom
<1>4. ASSUME NEW r \in Replica, Signal(r) \/ StopStep(r) PROVE TypeOK'
  BY <1>4 DEF Signal, StopStep, StopHttp, StopGrpc, StopProjection, Close
<1>5. ASSUME NEW r \in Replica, StopTimeout(r) \/ Kill(r) PROVE TypeOK'
  BY <1>5 DEF StopTimeout, Kill, Exit
<1>6. ASSUME NEW r \in Replica, WriteDocument(r) PROVE TypeOK'
  BY <1>6 DEF WriteDocument
<1>7. ASSUME NEW r \in Replica, NEW kind \in Kinds, BeginWork(r, kind) \/ EndWork(r, kind) PROVE TypeOK'
  BY <1>7 DEF BeginWork, EndWork
<1>8. CASE UNCHANGED vars
  BY <1>8 DEF vars
<1> QED
  BY <1>1, <1>2, <1>3, <1>4, <1>5, <1>6, <1>7, <1>8 DEF Next

\* A process does not load its configuration again.
LEMMA ConfigStays == [Next]_vars => deployment' = deployment /\ config' = config
<1> SUFFICES ASSUME [Next]_vars PROVE deployment' = deployment /\ config' = config
  OBVIOUS
<1> USE DEF vars
<1>1. CASE LateCreate
  BY <1>1 DEF LateCreate
<1>2. ASSUME NEW r \in Replica, StartStep(r) \/ StopStep(r) PROVE deployment' = deployment /\ config' = config
  BY <1>2 DEF StartStep, LockSchema, LookForSchema, CommitSchema, Construct, InspectIndex, CreateIndex,
      ConfirmIndex, StartProjection, ListenGrpc, ListenHttp, StopStep, StopHttp, StopGrpc, StopProjection, Close
<1>3. ASSUME NEW r \in Replica,
             Boot(r) \/ StartFails(r) \/ Signal(r) \/ StopTimeout(r) \/ Kill(r) \/ WriteDocument(r)
      PROVE  deployment' = deployment /\ config' = config
  BY <1>3 DEF Boot, StartFails, Signal, StopTimeout, Kill, WriteDocument
<1>4. ASSUME NEW r \in Replica, NEW kind \in Kinds, BeginWork(r, kind) \/ EndWork(r, kind)
      PROVE  deployment' = deployment /\ config' = config
  BY <1>4 DEF BeginWork, EndWork
<1> QED
  BY <1>1, <1>2, <1>3, <1>4 DEF Next

\* Where a step leaves each replica q, whichever replica r has taken it.
LEMMA PlaceStep ==
    ASSUME IInv, [Next]_vars, NEW q \in Replica
    PROVE  (Alone(q) /\ Indexed(q) /\ Equipped(q) /\ Placed(q))'
<1> DEFINE Fine == (Alone(q) /\ Indexed(q) /\ Equipped(q) /\ Placed(q))'
<1>1. /\ config' = config /\ TypeOK /\ TypeOK'
      /\ Alone(q) /\ Indexed(q) /\ Equipped(q) /\ Placed(q)
      /\ Opened(config) \subseteq Resources /\ "registry" \in Opened(config)
  BY ConfigStays, TypeStep, OpenedResources DEF IInv
<1> USE ReplicaAssumption, <1>1 DEF TypeOK, Alone, Indexed, Equipped, Placed, At, Within, Starting, Stopping, Kinds
<1>2. CASE LateCreate
  BY <1>2 DEF LateCreate
<1>3. ASSUME NEW r \in Replica, Boot(r) \/ StartStep(r) PROVE Fine
  <2>1. Alone(r) /\ Indexed(r) /\ Equipped(r) /\ Placed(r)
    BY DEF IInv
  <2>2. CASE Boot(r)
    BY <2>1, <2>2 DEF Boot
  <2>3. CASE LockSchema(r) \/ LookForSchema(r)
    BY <2>1, <2>3 DEF LockSchema, LookForSchema
  <2>4. CASE CommitSchema(r)
    BY <2>1, <2>4 DEF CommitSchema, Raced
  <2>5. CASE Construct(r)
    BY <2>1, <2>5 DEF Construct, Resources
  <2>6. CASE InspectIndex(r) \/ CreateIndex(r) \/ ConfirmIndex(r)
    BY <2>1, <2>6 DEF InspectIndex, CreateIndex, ConfirmIndex
  <2>7. CASE StartProjection(r)
    BY <2>1, <2>7 DEF StartProjection, Resources
  <2>8. CASE ListenGrpc(r) \/ ListenHttp(r)
    BY <2>1, <2>8 DEF ListenGrpc, ListenHttp, Resources
  <2> QED
    BY <1>3, <2>2, <2>3, <2>4, <2>5, <2>6, <2>7, <2>8 DEF StartStep
<1>4. ASSUME NEW r \in Replica, StartFails(r) PROVE Fine
  <2>1. Alone(r) /\ Indexed(r) /\ Equipped(r) /\ Placed(r)
    BY DEF IInv
  <2> QED
    BY <1>4, <2>1 DEF StartFails, RollbackFrom, Resources
<1>5. ASSUME NEW r \in Replica, Signal(r) \/ StopStep(r) PROVE Fine
  <2>1. Alone(r) /\ Indexed(r) /\ Equipped(r) /\ Placed(r)
    BY DEF IInv
  <2> QED
    BY <1>5, <2>1 DEF Signal, StopStep, StopHttp, StopGrpc, StopProjection, Close, Resources
<1>6. ASSUME NEW r \in Replica, StopTimeout(r) \/ Kill(r) PROVE Fine
  <2>1. Alone(r) /\ Indexed(r) /\ Equipped(r) /\ Placed(r)
    BY DEF IInv
  <2> QED
    BY <1>6, <2>1 DEF StopTimeout, Kill, Exit, Resources
<1>7. ASSUME NEW r \in Replica, WriteDocument(r) PROVE Fine
  BY <1>7 DEF WriteDocument
<1>8. ASSUME NEW r \in Replica, NEW kind \in Kinds, BeginWork(r, kind) \/ EndWork(r, kind) PROVE Fine
  BY <1>8 DEF BeginWork, EndWork, Source
<1>9. CASE UNCHANGED vars
  BY <1>9 DEF vars
<1> QED
  BY <1>2, <1>3, <1>4, <1>5, <1>6, <1>7, <1>8, <1>9 DEF Next

\* A replica writes only after it, or another one, has created the index.
LEMMA MappedStep == IInv /\ [Next]_vars => MappedIndex'
<1> SUFFICES ASSUME IInv, [Next]_vars PROVE MappedIndex'
  OBVIOUS
<1> USE DEF IInv, MappedIndex
<1>1. ASSUME NEW r \in Replica, WriteDocument(r) PROVE MappedIndex'
  <2>1. index # "none"
    BY <1>1 DEF WriteDocument, Placed, Indexed
  <2> QED
    BY <1>1, <2>1 DEF WriteDocument
<1>2. ASSUME NEW r \in Replica, Boot(r) \/ StartStep(r) \/ Signal(r) \/ StopStep(r) PROVE MappedIndex'
  BY <1>2 DEF Boot, StartStep, LockSchema, LookForSchema, CommitSchema, Construct, InspectIndex, CreateIndex,
      ConfirmIndex, StartProjection, ListenGrpc, ListenHttp, Signal, StopStep, StopHttp, StopGrpc,
      StopProjection, Close
<1>3. ASSUME NEW r \in Replica, StartFails(r) \/ StopTimeout(r) \/ Kill(r) PROVE MappedIndex'
  BY <1>3 DEF StartFails, StopTimeout, Kill
<1>4. ASSUME NEW r \in Replica, NEW kind \in Kinds, BeginWork(r, kind) \/ EndWork(r, kind) PROVE MappedIndex'
  BY <1>4 DEF BeginWork, EndWork
<1>5. CASE LateCreate \/ UNCHANGED vars
  BY <1>5 DEF LateCreate, vars
<1> QED
  BY <1>1, <1>2, <1>3, <1>4, <1>5 DEF Next

\* A start fails in a faultless world only under a configuration that does
\* not build.
LEMMA RaceStep == IInv /\ [Next]_vars => NoStartRace'
<1> SUFFICES ASSUME IInv, [Next]_vars, ~ fault', config # Refused, Builds(config) PROVE failed' = {}
  BY ConfigStays DEF NoStartRace
<1>1. CASE failed' = failed /\ fault' = fault
  BY <1>1 DEF IInv, NoStartRace
<1>2. ASSUME NEW r \in Replica, StartStep(r) PROVE failed' = {}
  <2>1. ~ fault /\ failed = {}
    BY <1>2 DEF StartStep, LockSchema, LookForSchema, CommitSchema, Construct, InspectIndex, CreateIndex,
        ConfirmIndex, StartProjection, ListenGrpc, ListenHttp, IInv, NoStartRace
  <2>2. Alone(r) /\ Indexed(r) /\ Equipped(r)
    BY DEF IInv
  <2>3. CASE CommitSchema(r)
    BY <2>1, <2>2, <2>3 DEF CommitSchema, Raced, Alone
  <2>4. CASE Construct(r)
    BY <2>1, <2>4 DEF Construct
  <2>5. CASE ConfirmIndex(r)
    BY <2>1, <2>2, <2>5 DEF ConfirmIndex, Indexed, At
  <2>6. CASE StartProjection(r)
    <3>1. "bus" \in up[r] => "db" \in up[r]
      BY <2>2, <2>6, OpenedTogether DEF StartProjection, At, Equipped, Within, Resources, IInv
    <3> QED
      BY <2>1, <2>6, <3>1 DEF StartProjection
  <2>7. CASE \/ LockSchema(r) \/ LookForSchema(r) \/ InspectIndex(r) \/ CreateIndex(r)
             \/ ListenGrpc(r) \/ ListenHttp(r)
    BY <2>1, <2>7 DEF LockSchema, LookForSchema, InspectIndex, CreateIndex, ListenGrpc, ListenHttp
  <2> QED
    BY <1>2, <2>3, <2>4, <2>5, <2>6, <2>7 DEF StartStep
<1>3. ASSUME NEW r \in Replica, StartFails(r) \/ Kill(r) PROVE failed' = {}
  BY <1>3 DEF StartFails, Kill
<1>4. ASSUME NEW r \in Replica,
             Boot(r) \/ Signal(r) \/ StopStep(r) \/ StopTimeout(r) \/ WriteDocument(r)
      PROVE  failed' = failed /\ fault' = fault
  BY <1>4 DEF Boot, Signal, StopStep, StopHttp, StopGrpc, StopProjection, Close, StopTimeout, WriteDocument
<1>5. ASSUME NEW r \in Replica, NEW kind \in Kinds, BeginWork(r, kind) \/ EndWork(r, kind)
      PROVE  failed' = failed /\ fault' = fault
  BY <1>5 DEF BeginWork, EndWork
<1>6. LateCreate \/ UNCHANGED vars => failed' = failed /\ fault' = fault
  BY DEF LateCreate, vars
<1> QED
  BY <1>1, <1>2, <1>3, <1>4, <1>5, <1>6 DEF Next

\* The invariant holds first and stays.
LEMMA Invariant == Spec => []IInv
<1>1. Init => IInv
  BY ReplicaAssumption DEF Init, IInv, Configured, TypeOK, MappedIndex, NoStartRace, Alone, Indexed, Equipped, Placed,
      Within, Starting, Stopping, Kinds
<1>2. IInv /\ [Next]_vars => IInv'
  BY ConfigStays, TypeStep, PlaceStep, MappedStep, RaceStep DEF IInv, Configured
<1> QED
  BY <1>1, <1>2, PTL DEF Spec

-----------------------------------------------------------------------------
(* Theorems.                                                               *)

\* Types, and only a replica inside createSchema holds the advisory lock.
THEOREM TypeCorrect == Spec => []TypeOK
<1>1. IInv => TypeOK
  BY DEF IInv
<1> QED
  BY <1>1, Invariant, PTL

\* No replica, of any number, writes to an index ensureIndex has not created.
THEOREM IndexMapped == Spec => []MappedIndex
<1>1. IInv => MappedIndex
  BY DEF IInv
<1> QED
  BY <1>1, Invariant, PTL

\* Any replicas of a deployment that Validate accepts and the constructors
\* can build start together without making each other fail.
THEOREM StartsApart == Spec => []NoStartRace
<1>1. IInv => NoStartRace
  BY DEF IInv
<1> QED
  BY <1>1, Invariant, PTL

\* Whatever a replica works on, in any deployment, has what it needs open.
THEOREM WorkEquipped == Spec => []ResourcesOutliveWork
<1>1. IInv => ResourcesOutliveWork
  <2> SUFFICES ASSUME IInv, NEW r \in Replica, NEW kind \in work[r]
               PROVE  Opened(config) \cup Needs(kind) \subseteq up[r]
    BY DEF ResourcesOutliveWork
  <2>1. Configured /\ TypeOK /\ Equipped(r) /\ Placed(r) /\ kind \in Kinds
    BY DEF IInv, TypeOK
  <2>2. pc[r] \in Within /\ config # Refused /\ Opened(config) \subseteq up[r]
    BY <2>1, OpenedResources DEF Placed, Equipped, Kinds, Within, Stopping
  <2>3. Needs(kind) \subseteq Opened(config)
    BY <2>1, <2>2, OpenedResources, OpenedTogether DEF Placed, Needs, Kinds
  <2> QED
    BY <2>2, <2>3
<1> QED
  BY <1>1, Invariant, PTL

-----------------------------------------------------------------------------
(* What a process that has anything open has been configured to do.        *)

\* The active profile, from whichever source, is what Validate looks at.
LEMMA ProductionSeen ==
    ASSUME Configured, config # Refused, ActiveProfile(Deployment[deployment]).name = "production"
    PROVE  Production(config)
<1> DEFINE s == Deployment[deployment]
<1>1. config.env = ActiveProfile(s)
  BY ConfigValid DEF Loaded, Settings, Override
<1>2. PICK name : ActiveProfile(s) = Profile(name)
  BY DEF ActiveProfile, Normal
<1>3. name = "production"
  BY <1>2 DEF Profile
<1> QED
  BY <1>1, <1>2, <1>3 DEF Production

\* A process configured to run as production, by whatever source and
\* spelling, opens nothing before Validate has held it to the rules.
THEOREM ProductionHeld == Spec => []ProfileEnforced
<1>1. IInv => ProfileEnforced
  <2> SUFFICES ASSUME IInv, NEW r \in Replica, up[r] # {} PROVE ProfileEnforced
    BY DEF ProfileEnforced
  <2>1. Configured /\ config # Refused
    BY DEF IInv, Equipped, Within, Stopping
  <2>2. Validate(config)
    BY <2>1, ConfigValid
  <2>3. ASSUME NEW u \in Upstreams(config), Upstream(config, u).auth # ""
        PROVE  /\ Upstream(config, u).tls # Upstream(config, u).insecure
               /\ Production(config) => Upstream(config, u).tls
    BY <2>2, <2>3 DEF Validate, ClientPolicyValid
  <2>4. Production(config) =>
          /\ On(config, "grpc") => On(config, "grpcTls")
          /\ ~ config.reflection /\ ~ config.skipVerify /\ config.authorization
          /\ config.swagger => config.swaggerAuth
          /\ Verifier(config) = "jwks"
    BY <2>2 DEF Validate, ProductionValid, Verifier
  <2> QED
    BY <2>1, <2>3, <2>4, ProductionSeen DEF ProfileEnforced
<1> QED
  BY <1>1, Invariant, PTL

\* Projection and startup migration agree on where the inbox is.
THEOREM InboxFound == Spec => []InboxWhereMigrated
<1>1. IInv => InboxWhereMigrated
  <2> SUFFICES ASSUME IInv, NEW r \in Replica, "consumer" \in up[r],
                      config.dbType = "mysql" <=> config.urlScheme = "mysql"
               PROVE  MigrationTarget(config) = InboxTarget(config)
    BY DEF InboxWhereMigrated
  <2>1. Configured /\ config # Refused
    BY DEF IInv, Equipped, Within, Stopping
  <2>2. config = Loaded(Deployment[deployment]) /\ config.dbName # ""
    BY <2>1, ConfigValid DEF Validate
  <2>3. config.migrationName = config.dbName /\ config.migrationSchema = config.schema
    <3> DEFINE layer == Sources(Deployment[deployment])
    <3>1. {"dbName", "schema"} \subseteq DOMAIN Defaults.settings
      BY DEF Defaults, Layer, Override
    <3>2. DOMAIN Defaults.settings \subseteq DOMAIN layer.settings
      BY DEF Sources, OverByEnvironment, Over, Layer, Override
    <3> QED
      BY <2>2, <3>1, <3>2 DEF Loaded, Settings, Override
  <2> QED
    BY <2>2, <2>3 DEF MigrationTarget, InboxTarget
<1> QED
  BY <1>1, Invariant, PTL-----------------------------------------------------------------------------
(* How long a start and a stop may take.                                   *)

\* The steps a replica has left at most before its process has ended.
Place ==
    [down |-> 0, close |-> 1, stopProjection |-> 2, stopGrpc |-> 3, stopHttp |-> 4, running |-> 5,
     http |-> 6, grpc |-> 7, project |-> 8, confirm |-> 9, create |-> 10, inspect |-> 11,
     construct |-> 12, commit |-> 13, insert |-> 14, creating |-> 15, schema |-> 16]

StepsLeft(r) == Place[pc[r]]

\* Hooks run in one direction: whatever other replicas do, and whatever fails,
\* a step of a start, a rollback or a stop brings a replica closer to its end,
\* and only main begins again.  So no start and no rollback can go in circles.
THEOREM HooksAdvance ==
    Spec => [][\A r \in Replica :
                  /\ StepsLeft(r) \in 0..16
                  /\ StartStep(r) \/ StartFails(r) \/ Signal(r) \/ StopStep(r) \/ StopTimeout(r) \/ Kill(r)
                       => StepsLeft(r)' < StepsLeft(r)
                  /\ StepsLeft(r)' > StepsLeft(r) => Boot(r)]_vars
<1> DEFINE Nearing(r) ==
              /\ StepsLeft(r) \in 0..16
              /\ StartStep(r) \/ StartFails(r) \/ Signal(r) \/ StopStep(r) \/ StopTimeout(r) \/ Kill(r)
                   => StepsLeft(r)' < StepsLeft(r)
              /\ StepsLeft(r)' > StepsLeft(r) => Boot(r)
<1>1. ASSUME IInv, [Next]_vars, NEW q \in Replica PROVE Nearing(q)
  <2>1. pc \in [Replica -> {"down", "running"} \cup Starting \cup Stopping]
    BY <1>1 DEF IInv, TypeOK
  <2>2. StepsLeft(q) \in 0..16
    BY <2>1 DEF StepsLeft, Place, Starting, Stopping
  <2>3. ASSUME NEW r \in Replica, StartStep(r) PROVE StepsLeft(r)' < StepsLeft(r) /\ (r # q => pc'[q] = pc[q])
    <3> USE <2>1 DEF StepsLeft, Place, At
    <3>1. CASE LockSchema(r) \/ LookForSchema(r) \/ CommitSchema(r)
      BY <3>1 DEF LockSchema, LookForSchema, CommitSchema
    <3>2. CASE Construct(r) \/ InspectIndex(r) \/ CreateIndex(r) \/ ConfirmIndex(r)
      BY <3>2 DEF Construct, InspectIndex, CreateIndex, ConfirmIndex
    <3>3. CASE StartProjection(r) \/ ListenGrpc(r) \/ ListenHttp(r)
      BY <3>3 DEF StartProjection, ListenGrpc, ListenHttp
    <3> QED
      BY <2>3, <3>1, <3>2, <3>3 DEF StartStep
  <2>4. ASSUME NEW r \in Replica, Signal(r) \/ StopStep(r)
        PROVE  StepsLeft(r)' < StepsLeft(r) /\ (r # q => pc'[q] = pc[q])
    BY <2>1, <2>4 DEF StepsLeft, Place, At, Signal, StopStep, StopHttp, StopGrpc, StopProjection, Close
  <2>5. ASSUME NEW r \in Replica, StopTimeout(r) \/ Kill(r)
        PROVE  StepsLeft(r)' < StepsLeft(r) /\ (r # q => pc'[q] = pc[q])
    BY <2>1, <2>5 DEF StepsLeft, Place, StopTimeout, Kill, Exit, Starting, Stopping
  <2>6. ASSUME NEW r \in Replica, StartFails(r)
        PROVE  StepsLeft(r)' < StepsLeft(r) /\ (r # q => pc'[q] = pc[q])
    BY <2>1, <2>6 DEF StepsLeft, Place, StartFails, RollbackFrom, Starting
  <2>7. ASSUME NEW r \in Replica, Boot(r) PROVE r # q => pc'[q] = pc[q]
    BY <2>1, <2>7 DEF Boot, At
  <2>8. ASSUME NEW r \in Replica, NEW kind \in Kinds,
               WriteDocument(r) \/ BeginWork(r, kind) \/ EndWork(r, kind)
        PROVE  pc' = pc
    BY <2>8 DEF WriteDocument, BeginWork, EndWork
  <2>9. LateCreate \/ UNCHANGED vars => pc' = pc
    BY DEF LateCreate, vars
  <2>10. pc'[q] = pc[q] => StepsLeft(q)' = StepsLeft(q)
    BY DEF StepsLeft
  <2>11. StepsLeft(q)' > StepsLeft(q) => Boot(q)
    <3> SUFFICES ASSUME ~ Boot(q) PROVE pc'[q] = pc[q] \/ StepsLeft(q)' < StepsLeft(q)
      BY <2>1, <2>2, <2>10, TypeStep, <1>1 DEF IInv, TypeOK, StepsLeft, Place, Starting, Stopping
    <3>1. ASSUME NEW r \in Replica, Boot(r) PROVE pc'[q] = pc[q]
      BY <2>7, <3>1
    <3>2. ASSUME NEW r \in Replica,
                 StartStep(r) \/ StartFails(r) \/ Signal(r) \/ StopStep(r) \/ StopTimeout(r) \/ Kill(r)
          PROVE  pc'[q] = pc[q] \/ StepsLeft(q)' < StepsLeft(q)
      <4>1. CASE r = q
        BY <2>3, <2>4, <2>5, <2>6, <3>2, <4>1
      <4>2. CASE r # q
        BY <2>3, <2>4, <2>5, <2>6, <3>2, <4>2
      <4> QED
        BY <4>1, <4>2
    <3> QED
      BY <1>1, <2>8, <2>9, <3>1, <3>2 DEF Next, Kinds
  <2> QED
    BY <2>2, <2>3, <2>4, <2>5, <2>6, <2>11
<1>2. IInv /\ [Next]_vars => [\A r \in Replica : Nearing(r)]_vars
  BY <1>1
<1> QED
  BY <1>2, Invariant, PTL DEF Spec

=============================================================================
