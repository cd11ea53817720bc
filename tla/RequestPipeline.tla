--------------------------- MODULE RequestPipeline ---------------------------
(***************************************************************************)
(* Requests on their way to a handler: the middleware of                   *)
(* internal/transport/http/middleware.go in the order NewServer installs   *)
(* it, with what the groups of routes add, and the unary and the stream    *)
(* interceptors of internal/transport/grpc/server.go.  Requests run        *)
(* concurrently and share the rate limiter's budgets in Redis (external).  *)
(* Token verification and the decision of the authorizer are external too. *)
(***************************************************************************)
EXTENDS Integers

CONSTANTS
    Thread,                \* goroutines that serve requests
    Input,                 \* requests: [entry, flaw, ip, route, credential]
    Matched,               \* routes that have a handler
    Protected,             \* routes with a requirement (searchHTTPRequirement, searchGRPCRequirement)
    PskRoutes,             \* routes that match auth.psk patterns, none when disabled
    SkipRoutes,            \* routes that match auth.skip patterns
    LimiterEnabled,        \* rate_limit.enabled
    FailOpen,              \* rate_limit.fail_open
    AuthorizationEnabled,  \* authorization.enabled
    Burst                  \* budget of a bucket

\* Where a request enters: /api/v1; /live, /ready, /metrics and an open
\* /swagger; /debug/pprof; /swagger with require_auth; gRPC calls and streams.
Http == {"api", "open", "pprof", "swagger"}

Entry == Http \cup {"unary", "stream"}

\* No requirement names a method that streams.
ASSUME PipelineAssumption ==
    /\ Burst \in Nat \ {0}
    /\ {LimiterEnabled, FailOpen, AuthorizationEnabled} \subseteq BOOLEAN
    /\ Input # {}
    /\ \A i \in Input : /\ i.entry \in Entry
                        /\ i.entry = "stream" => i.route \notin Protected

VARIABLES
    budget,  \* external: what is left in each bucket of the limiter
    request  \* what each goroutine serves and how far it is

vars == <<budget, request>>

Subject == {i.credential.subject : i \in Input} \cup {"psk"}

Bucket == {<<"ip", i.ip>> : i \in Input} \cup {<<"api", i.route>> : i \in Input}
            \cup {<<"user", s>> : s \in Subject}

First(entry) == IF entry \in Http THEN "key" ELSE "route"

\* Mutant: the user limit precedes authorization.
ApiChainUserEarly ==
    [key |-> "cors", cors |-> "json", json |-> "route", route |-> "ip", ip |-> "api", api |-> "authenticate",
     authenticate |-> "user", user |-> "authorize", authorize |-> "handle"]

ApiChain ==
    [key |-> "cors", cors |-> "json", json |-> "route", route |-> "ip", ip |-> "api", api |-> "authenticate",
     authenticate |-> "authorize", authorize |-> "user", user |-> "handle"]

\* The order of middleware and interceptors: what follows each of them.
Chain(entry) ==
    CASE entry = "api" -> ApiChain
      [] entry = "open" -> [key |-> "cors", cors |-> "json", json |-> "route", route |-> "handle"]
      [] entry = "pprof" ->
           [key |-> "cors", cors |-> "json", json |-> "route", route |-> "token", token |-> "handle"]
      [] entry = "swagger" ->
           [key |-> "cors", cors |-> "json", json |-> "route", route |-> "bearer", bearer |-> "handle"]
      [] entry = "unary" ->
           [route |-> "key", key |-> "authenticate", authenticate |-> "authorize",
            authorize |-> "deduplicate", deduplicate |-> "handle"]
      [] entry = "stream" ->
           [route |-> "header", header |-> "key", key |-> "authenticate", authenticate |-> "handle"]

\* subject and principal as the context carries them and the number of answers
\* written; permitted, excused (limits passed because the limiter was down) and
\* charged are history.
New(input) ==
    [pc |-> First(input.entry), input |-> input, subject |-> "", principal |-> "", permitted |-> FALSE,
     excused |-> {}, charged |-> {}, answers |-> 0]

\* Between two requests; its input means nothing.
Idle == [New(CHOOSE i \in Input : TRUE) EXCEPT !.pc = "idle"]

Init ==
    /\ budget = [b \in Bucket |-> Burst]
    /\ request = [t \in Thread |-> Idle]

\* The stage that follows.
After(state) == Chain(state.input.entry)[state.pc]

Become(t, state) == request' = [request EXCEPT ![t] = state]

\* c.Next()
Passed(state) == [state EXCEPT !.pc = After(state)]

\* Fail or OK: the answer is written and the chain returns.
Replied(state) == [state EXCEPT !.pc = "unwind", !.answers = @ + 1]

Arrive(t, input) ==
    /\ request[t].pc = "idle"
    /\ Become(t, New(input))
    /\ UNCHANGED budget

\* A middleware that refuses a flawed request.
Refuse(t, flaw) ==
    /\ request[t].pc = flaw
    /\ \/ request[t].input.flaw = flaw /\ Become(t, Replied(request[t]))
       \/ request[t].input.flaw # flaw /\ Become(t, Passed(request[t]))
    /\ UNCHANGED budget

IdempotencyKey(t) == Refuse(t, "key")

\* A preflight of an allowed origin is answered here as well.
CORS(t) == Refuse(t, "cors")

RequireJSON(t) == Refuse(t, "json")

\* requestIDStreamInterceptor cannot send the header.
SendHeader(t) == Refuse(t, "header")

\* A request for no route has no handlers left.
Route(t) ==
    /\ request[t].pc = "route"
    /\ \/ request[t].input.route \in Matched /\ Become(t, Passed(request[t]))
       \/ request[t].input.route \notin Matched /\ Become(t, [request[t] EXCEPT !.pc = "unwind"])
    /\ UNCHANGED budget

-----------------------------------------------------------------------------
(* RateLimit: by client address, by route and, after authentication, by    *)
(* subject.                                                                *)

Limits == {"ip", "api", "user"}

LimitKey(state, limit) ==
    CASE limit = "ip" -> state.input.ip
      [] limit = "api" -> state.input.route
      [] limit = "user" -> state.subject

Limited(t) == request[t].pc \in Limits /\ LimiterEnabled /\ LimitKey(request[t], request[t].pc) # ""

BucketOf(t) == <<request[t].pc, LimitKey(request[t], request[t].pc)>>

NoLimit(t) ==
    /\ request[t].pc \in Limits /\ ~ Limited(t)
    /\ Become(t, Passed(request[t]))
    /\ UNCHANGED budget

\* Mutant: one request too many.
AllowLate(t) ==
    /\ Limited(t)
    /\ \/ /\ budget[BucketOf(t)] >= 0
          /\ budget' = [budget EXCEPT ![BucketOf(t)] = @ - 1]
          /\ Become(t, Passed([request[t] EXCEPT !.charged = @ \cup {BucketOf(t)}]))
       \/ /\ budget[BucketOf(t)] < 0
          /\ Become(t, Replied(request[t]))
          /\ UNCHANGED budget

Allow(t) ==
    /\ Limited(t)
    /\ \/ /\ budget[BucketOf(t)] > 0
          /\ budget' = [budget EXCEPT ![BucketOf(t)] = @ - 1]
          /\ Become(t, Passed([request[t] EXCEPT !.charged = @ \cup {BucketOf(t)}]))
       \/ /\ budget[BucketOf(t)] = 0
          /\ Become(t, Replied(request[t]))
          /\ UNCHANGED budget

\* Redis does not answer.
LimiterFails(t) ==
    /\ Limited(t)
    /\ Become(t, IF FailOpen THEN Passed([request[t] EXCEPT !.excused = @ \cup {request[t].pc}])
                             ELSE Replied(request[t]))
    /\ UNCHANGED budget

\* Time refills a bucket.
Refill(b) ==
    /\ budget[b] < Burst
    /\ budget' = [budget EXCEPT ![b] = Burst]
    /\ UNCHANGED request

-----------------------------------------------------------------------------
(* Authentication and Authorization, authenticateGRPC and the interceptor  *)
(* of the shared library.                                                  *)

Presents(t, scheme) ==
    request[t].input.credential.scheme = scheme /\ request[t].input.credential.valid

Identified(state, subject, principal) ==
    [state EXCEPT !.subject = subject, !.principal = principal]

\* Mutant: skipped routes are looked at first.
AuthenticateSkipFirst(t) ==
    /\ request[t].pc = "authenticate"
    /\ LET route == request[t].input.route IN
       \/ route \in SkipRoutes /\ Become(t, Passed(request[t]))
       \/ /\ route \in PskRoutes \ SkipRoutes /\ Presents(t, "psk")
          /\ Become(t, Passed(Identified(request[t], "psk", "search-service:psk")))
       \/ /\ route \in PskRoutes \ SkipRoutes /\ ~ Presents(t, "psk")
          /\ Become(t, Replied(request[t]))
       \/ /\ route \notin PskRoutes \cup SkipRoutes /\ Presents(t, "bearer")
          /\ LET who == request[t].input.credential.subject IN
             Become(t, Passed(Identified(request[t], who, who)))
       \/ /\ route \notin PskRoutes \cup SkipRoutes
          /\ Become(t, Replied(request[t]))
    /\ UNCHANGED budget

\* A valid bearer token may be refused as well, when the keys to verify it
\* cannot be had.
Authenticate(t) ==
    /\ request[t].pc = "authenticate"
    /\ LET route == request[t].input.route IN
       \/ /\ route \in PskRoutes /\ Presents(t, "psk")
          /\ Become(t, Passed(Identified(request[t], "psk", "search-service:psk")))
       \/ /\ route \in PskRoutes /\ ~ Presents(t, "psk")
          /\ Become(t, Replied(request[t]))
       \/ /\ route \in SkipRoutes \ PskRoutes
          /\ Become(t, Passed(request[t]))
       \/ /\ route \notin PskRoutes \cup SkipRoutes /\ Presents(t, "bearer")
          /\ LET who == request[t].input.credential.subject IN
             Become(t, Passed(Identified(request[t], who, who)))
       \/ /\ route \notin PskRoutes \cup SkipRoutes
          /\ Become(t, Replied(request[t]))
    /\ UNCHANGED budget

\* JWT before /swagger.
Bearer(t) ==
    /\ request[t].pc = "bearer"
    /\ \/ /\ Presents(t, "bearer")
          /\ LET who == request[t].input.credential.subject IN
             Become(t, Passed(Identified(request[t], who, who)))
       \/ Become(t, Replied(request[t]))
    /\ UNCHANGED budget

\* pprofAuth: the bearer token is the configured one.
PprofToken(t) ==
    /\ request[t].pc = "token"
    /\ Become(t, IF Presents(t, "pprof") THEN Passed(request[t]) ELSE Replied(request[t]))
    /\ UNCHANGED budget

\* The decision: allowed, denied, or not to be had.
Authorize(t) ==
    /\ request[t].pc = "authorize"
    /\ \/ Become(t, Passed([request[t] EXCEPT !.permitted = TRUE]))
       \/ /\ AuthorizationEnabled /\ request[t].input.route \in Protected
          /\ Become(t, Replied(request[t]))
    /\ UNCHANGED budget

\* The idempotency interceptor: first call of a key, or an earlier call's
\* answer, a conflict or an outage.
Deduplicate(t) ==
    /\ request[t].pc = "deduplicate"
    /\ \/ Become(t, Passed(request[t]))
       \/ Become(t, Replied(request[t]))
    /\ UNCHANGED budget

-----------------------------------------------------------------------------
(* The handler, and what happens on the way back.                          *)

Handle(t) ==
    /\ request[t].pc = "handle"
    /\ Become(t, Replied(request[t]))
    /\ UNCHANGED budget

\* Recovery sits outside Timeout: a panic passes the latter by.  Recovery writes
\* without looking whether an answer has begun; the handlers of this repository
\* end with their answer, so that a panic comes before it.
Panic(t) ==
    /\ request[t].pc = "handle"
    /\ Become(t, [request[t] EXCEPT !.pc = "done", !.answers = @ + 1])
    /\ UNCHANGED budget

\* Mutant: Timeout does not ask whether an answer has been written.
UnwindAnyway(t) ==
    /\ request[t].pc = "unwind"
    /\ \E late \in IF request[t].input.entry \in Http THEN {0, 1} ELSE {0} :
          Become(t, [request[t] EXCEPT !.pc = "done", !.answers = @ + late])
    /\ UNCHANGED budget

\* For a chain that has not answered Timeout does, when the deadline has
\* passed, or else the router does (not found).
Unwind(t) ==
    /\ request[t].pc = "unwind"
    /\ Become(t, [request[t] EXCEPT !.pc = "done", !.answers = IF @ = 0 THEN 1 ELSE @])
    /\ UNCHANGED budget

Leave(t) ==
    /\ request[t].pc = "done"
    /\ Become(t, Idle)
    /\ UNCHANGED budget

-----------------------------------------------------------------------------

Serve(t) ==
    \/ IdempotencyKey(t) \/ CORS(t) \/ RequireJSON(t) \/ SendHeader(t) \/ Route(t)
    \/ Bearer(t) \/ PprofToken(t)
    \/ NoLimit(t) \/ Allow(t) \/ LimiterFails(t) \/ Authenticate(t) \/ Authorize(t)
    \/ Deduplicate(t) \/ Handle(t) \/ Panic(t) \/ Unwind(t)

Next ==
    \/ \E t \in Thread : Serve(t) \/ Leave(t)
    \/ \E t \in Thread, i \in Input : Arrive(t, i)
    \/ \E b \in Bucket : Refill(b)

Spec == Init /\ [][Next]_vars

-----------------------------------------------------------------------------
(* Properties.                                                             *)

Stage == {"key", "cors", "json", "header", "route", "ip", "api", "token", "bearer", "authenticate", "authorize",
          "user", "deduplicate", "handle"}

State ==
    [pc : Stage \cup {"idle", "unwind", "done"}, input : Input, subject : Subject \cup {""},
     principal : Subject \cup {"", "search-service:psk"}, permitted : BOOLEAN, excused : SUBSET Limits,
     charged : SUBSET Bucket, answers : Nat]

\* Types; a bucket of the limiter is never overdrawn, whoever draws from it
\* at the same time (RateLimit).
TypeOK ==
    /\ budget \in [Bucket -> 0..Burst]
    /\ request \in [Thread -> State]

\* The limits a request has paid for or been excused from.
Settled(state) == {b[1] : b \in state.charged} \cup state.excused

\* A request that reaches its handler carries the credential its route calls
\* for (a route for the shared key does not become public by being skipped as
\* well, and the principal is the token's), was permitted where the route has
\* a requirement, and has passed every limit that applies to it, that of its
\* subject included.
HandlerGuarded ==
    \A t \in Thread : request[t].pc = "handle" =>
        LET r == request[t].input.route
            e == request[t].input.entry
            c == request[t].input.credential
            guarded == e \in {"api", "unary", "stream"}
            shared == guarded /\ r \in PskRoutes
            named == e = "swagger" \/ (guarded /\ r \notin PskRoutes \cup SkipRoutes) IN
        /\ shared => c.scheme = "psk" /\ c.valid
        /\ named => c.scheme = "bearer" /\ c.valid /\ request[t].principal = c.subject
        /\ e = "pprof" => c.scheme = "pprof" /\ c.valid
        /\ (guarded /\ AuthorizationEnabled /\ r \in Protected) => request[t].permitted
        /\ (e = "api" /\ LimiterEnabled) =>
              Settled(request[t]) = {k \in Limits : LimitKey(request[t], k) # ""}

\* The budget of a subject is spent only by requests that were authenticated
\* as that subject and permitted: nobody is limited because of requests that
\* were refused.
SubjectBudgetOwn ==
    \A t \in Thread : \A b \in request[t].charged :
        b[1] = "user" => request[t].principal # "" /\ request[t].subject = b[2] /\ request[t].permitted

\* Every request is answered once: by the handler or whoever refused it, by
\* Recovery, or by Timeout, never by two of them, whenever the deadline passes.
OneAnswer ==
    \A t \in Thread : /\ request[t].answers <= 1
                      /\ request[t].pc = "done" => request[t].answers = 1
=============================================================================
