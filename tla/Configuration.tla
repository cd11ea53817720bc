---------------------------- MODULE Configuration ----------------------------
(***************************************************************************)
(* How a process comes to its configuration (internal/config/config.go,    *)
(* from the flag -env, the environment, config.yaml and the file of the    *)
(* active profile), what Validate accepts, and what the constructors of    *)
(* the application make of it.  A section of the file stands for its       *)
(* switch and its settings together: it is "off", "on", or "flawed", on    *)
(* with a setting missing or out of range.                                 *)
(***************************************************************************)
EXTENDS Naturals

\* Sections Validate looks into; "core" stands for those without a switch.
Section ==
    {"core", "grpc", "grpcTls", "database", "migration", "redis", "rateLimit", "cors", "tracing",
     "pprof", "psk", "opensearch", "eventBus", "idempotency"}

\* A profile as it is written: its name, and whether in lower case and untrimmed.
Profile(name) == [name |-> name, exact |-> TRUE]

\* A source of settings; those of an upstream are named <<transport, name, field>>.
Layer(settings, outbound) == [settings |-> settings, outbound |-> outbound]

NoLayer == Layer([x \in {} |-> ""], [x \in {} |-> ""])

\* f where it is defined, else g.
Override(f, g) == [x \in DOMAIN f \cup DOMAIN g |-> IF x \in DOMAIN f THEN f[x] ELSE g[x]]

Defaults ==
    Layer(Override([s \in Section |-> IF s \in {"core", "grpc"} THEN "on" ELSE "off"],
          [env |-> Profile("development"), reflection |-> TRUE, swagger |-> TRUE, swaggerAuth |-> FALSE,
           jwks |-> FALSE, issuer |-> TRUE, clientId |-> FALSE, clientSecret |-> FALSE, secret |-> FALSE,
           authorization |-> FALSE, skipVerify |-> FALSE, createSchema |-> FALSE, dbType |-> "postgres",
           dbName |-> "platform", schema |-> "search", urlScheme |-> "", urlName |-> ""]),
          [x \in {} |-> ""])

-----------------------------------------------------------------------------
(* LoadWithProfile.                                                        *)

\* What the upper source sets, over the lower one.
Over(upper, lower) ==
    Layer(Override(upper.settings, lower.settings), Override(upper.outbound, lower.outbound))

\* Variables override settings the files or the defaults mention; one more is
\* bound by its name.
OverByEnvironment(env, lower) ==
    LET bound == DOMAIN lower.outbound \cup {<<"grpc", "authorization", "target">>}
    IN  Over(Layer(env.settings, [k \in bound \cap DOMAIN env.outbound |-> env.outbound[k]]), lower)

\* ToLower(TrimSpace(profile))
Normal(profile) == Profile(profile.name)

\* The flag, else what APP_ENV, config.yaml or the default says.
ActiveProfile(s) ==
    Normal(IF s.flag.name # "" THEN s.flag
           ELSE OverByEnvironment(s.env, Over(s.file, Defaults)).settings.env)

\* The file of the profile need not exist.
ProfileFile(s) ==
    LET name == ActiveProfile(s).name IN IF name \in DOMAIN s.profiles THEN s.profiles[name] ELSE NoLayer

Sources(s) == OverByEnvironment(s.env, Over(ProfileFile(s), Over(s.file, Defaults)))

Settings(layer, profile, database, namespace) ==
    Override([env |-> profile, outbound |-> layer.outbound, migrationName |-> database,
              migrationSchema |-> namespace], layer.settings)

\* Mutants: the sources have the last word on app.env; the migration does not
\* learn the database and schema of the service.
LoadedKeepingEnv(s) ==
    LET layer == Sources(s)
    IN  Settings(layer, layer.settings.env, layer.settings.dbName, layer.settings.schema)

LoadedWithoutNames(s) == Settings(Sources(s), ActiveProfile(s), "", "")

\* v.Set("app.env", profile) overrides every source.
Loaded(s) ==
    LET layer == Sources(s)
    IN  Settings(layer, ActiveProfile(s), layer.settings.dbName, layer.settings.schema)

-----------------------------------------------------------------------------
(* Validate.                                                               *)

On(c, section) == c[section] # "off"

Production(c) == c.env = Profile("production")

Upstreams(c) == {<<k[1], k[2]>> : k \in DOMAIN c.outbound}

\* The fields of an upstream no source mentions are zero.
Upstream(c, u) ==
    LET zero == [auth |-> "", token |-> FALSE, tls |-> FALSE, insecure |-> FALSE, target |-> "",
                 policy |-> FALSE]
    IN  [f \in DOMAIN zero |->
            IF <<u[1], u[2], f>> \in DOMAIN c.outbound THEN c.outbound[<<u[1], u[2], f>>] ELSE zero[f]]

\* validateClientPolicy; policy: timeout, retry, breaker and certificates fit.
ClientPolicyValid(upstream, production) ==
    LET credentials == upstream.auth # "" IN
    /\ upstream.target # "" /\ upstream.policy
    /\ upstream.auth \in {"", "bearer", "psk"}
    /\ credentials => upstream.token /\ (upstream.tls \/ upstream.insecure)
    /\ ~ (upstream.tls /\ upstream.insecure)
    /\ ~ (production /\ credentials /\ upstream.insecure)

\* What a production profile insists on.
ProductionValid(c) ==
    /\ On(c, "grpc") => On(c, "grpcTls")
    /\ ~ c.reflection
    /\ c.swagger => c.swaggerAuth
    /\ c.jwks /\ c.issuer
    /\ c.authorization
    /\ ~ c.skipVerify

\* Sections and what they cannot work without.
Requires ==
    {<<"migration", "database">>, <<"rateLimit", "redis">>, <<"eventBus", "database">>,
     <<"idempotency", "redis">>}

Validate(c) ==
    /\ c.dbName # ""
    /\ \A s \in Section : c[s] # "flawed"
    /\ \A r \in Requires : On(c, r[1]) => On(c, r[2])
    /\ Production(c) => ProductionValid(c)
    /\ c.authorization => <<"grpc", "authorization">> \in Upstreams(c)
    /\ On(c, "opensearch") => <<"grpc", "application">> \in Upstreams(c)
    /\ c.clientId \/ c.clientSecret => c.secret
    /\ \A u \in Upstreams(c) : ClientPolicyValid(Upstream(c, u), Production(c))

Refused == [refused |-> TRUE]

\* Unreadable files, a profile that is no name and a configuration that does
\* not validate end the process; "" is config.yaml.
LoadWithProfile(s) ==
    LET profile == ActiveProfile(s).name IN
    IF {"", profile} \cap s.unreadable = {} /\ profile \in s.validProfile /\ Validate(Loaded(s))
    THEN Loaded(s) ELSE Refused

-----------------------------------------------------------------------------
(* Constructors.                                                           *)

\* NewHTTPClient and Dial.
Connects(transport, upstream) ==
    LET credentials == upstream.auth # "" IN
    \/ transport = "http" /\ (credentials => upstream.tls) /\ upstream.target = "url"
    \/ transport = "grpc" /\ (credentials => upstream.tls \/ upstream.insecure)

\* NewRegistry, searchstore.New, newApplicationVerifier, newSearchAccessResolver.
\* What other constructors may refuse (trusted proxies, certificate and key files)
\* may fail in Lifecycle's StartFails whatever the configuration says.
Builds(c) ==
    /\ \A u \in Upstreams(c) : Connects(u[1], Upstream(c, u))
    /\ On(c, "opensearch")
    /\ <<"grpc", "application">> \in Upstreams(c)
    /\ Production(c) => <<"grpc", "authorization">> \in Upstreams(c)

\* newDatabase, newRedis, newBus, NewRegistry: what a process opens.
Opened(c) ==
    {"registry"} \cup {x \in {"db", "redis", "bus"} :
                         On(c, CASE x = "db" -> "database" [] x = "redis" -> "redis" [] x = "bus" -> "eventBus")}

\* createSchema is called.
CreatesSchema(c) ==
    On(c, "migration") /\ c.createSchema /\ c.migrationSchema # "" /\ c.urlScheme # "mysql"

\* withMigrationOptions: where the migrator creates tables.
MigrationTarget(c) ==
    [database |-> IF c.migrationName = "" THEN c.urlName ELSE c.migrationName,
     schema   |-> IF c.urlScheme = "mysql" THEN "" ELSE c.migrationSchema]

\* database.Open and newSearchInbox: where the projection looks for its inbox.
InboxTarget(c) ==
    [database |-> c.dbName, schema |-> IF c.dbType = "mysql" THEN "" ELSE c.schema]

\* NewRuntime, Enabled: what verifies bearer tokens.
Verifier(c) ==
    CASE c.jwks -> "jwks"
      [] ~ c.jwks /\ c.secret /\ c.clientId /\ c.clientSecret -> "local"
      [] OTHER -> "none"
=============================================================================
