----------------------------- MODULE MCLifecycle -----------------------------
(***************************************************************************)
(* Deployments for Lifecycle: some that serve, and some that must not.     *)
(***************************************************************************)
EXTENDS Lifecycle, TLC

Nothing == [x \in {} |-> ""]

\* An upstream a file describes completely.
Described(transport, name, auth, tls) ==
    [k \in {transport} \X {name} \X {"auth", "token", "tls", "insecure", "target", "policy"} |->
        CASE k[3] = "auth"     -> auth
          [] k[3] = "tls"      -> tls
          [] k[3] = "insecure" -> auth # "" /\ ~ tls
          [] k[3] = "target"   -> IF transport = "http" THEN "url" ELSE "bare"
          [] OTHER             -> TRUE]

Clients(tls) == Described("grpc", "application", "psk", tls) @@ Described("grpc", "authorization", "bearer", tls)

\* config.yaml with a database and an event bus behind OpenSearch.
Base(outbound) ==
    Layer([s \in {"opensearch", "database", "migration", "eventBus"} |-> "on"] @@ [createSchema |-> TRUE],
          outbound)

\* A file of the production profile, with Redis and what hangs on it.
ProductionFile ==
    Layer([s \in {"grpcTls", "redis", "rateLimit", "idempotency"} |-> "on"] @@
          [reflection |-> FALSE, swaggerAuth |-> TRUE, jwks |-> TRUE, authorization |-> TRUE],
          Nothing)

Plain == [flag |-> Profile(""), env |-> NoLayer, file |-> Base(Clients(TRUE)), profiles |-> Nothing,
          unreadable |-> {}, validProfile |-> {"development", "production"}]

\* "-env Production" against APP_ENV=development.
InProduction ==
    [Plain EXCEPT !.flag = [name |-> "production", exact |-> FALSE],
                  !.env = Layer([env |-> Profile("development")], Nothing),
                  !.profiles = [p \in {"production"} |-> ProductionFile]]

\* MySQL, where a database has no schemas, without the gRPC server.
OnMySQL ==
    [Plain EXCEPT !.env = Layer([dbType |-> "mysql", urlScheme |-> "mysql", grpc |-> "off"], Nothing),
                  !.file = Base(Clients(FALSE))]

\* What it takes to serve reads.
Minimal ==
    [Plain EXCEPT !.file = Layer([opensearch |-> "on"], Described("grpc", "application", "", FALSE))]

MCDeployment ==
    [production |-> InProduction, mysql |-> OnMySQL, minimal |-> Minimal,
     fileMissing |-> [InProduction EXCEPT !.profiles = Nothing],
     clearText   |-> [InProduction EXCEPT !.file = Base(Clients(FALSE))],
     localSecret |-> [InProduction EXCEPT !.env = Layer([jwks |-> FALSE, secret |-> TRUE, clientId |-> TRUE,
                                                         clientSecret |-> TRUE], Nothing)],
     notAName    |-> [Plain EXCEPT !.flag = Profile("../production")],
     unreadable  |-> [InProduction EXCEPT !.unreadable = {"production"}],
     busAlone    |-> [Plain EXCEPT !.env = Layer([database |-> "off", migration |-> "off"], Nothing)],
     \* an upstream that only the environment mentions
     unnamed     |-> [Minimal EXCEPT !.env = Layer(Nothing, [k \in {<<"grpc", "authorization", "target">>} |-> "bare"])],
     \* HTTP credentials without TLS, which Validate accepts and NewHTTPClient does not
     billing     |-> [Minimal EXCEPT !.file.outbound = @ @@ Described("http", "billing", "bearer", FALSE)]]
=============================================================================
