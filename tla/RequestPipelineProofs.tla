------------------------ MODULE RequestPipelineProofs ------------------------
(***************************************************************************)
(* Proofs about RequestPipeline, for any requests, routes and settings of  *)
(* authentication, authorization and the limiter.  Requests share nothing  *)
(* but the budgets, so the invariant speaks of one request: what must hold *)
(* of it at each stage of the chain it entered by.                         *)
(***************************************************************************)
EXTENDS RequestPipeline, TLAPS

USE PipelineAssumption

\* The stages of a chain.
Stages(entry) ==
    CASE entry = "api" -> {"key", "cors", "json", "route", "ip", "api", "authenticate", "authorize", "user", "handle"}
      [] entry = "open" -> {"key", "cors", "json", "route", "handle"}
      [] entry = "pprof" -> {"key", "cors", "json", "route", "token", "handle"}
      [] entry = "swagger" -> {"key", "cors", "json", "route", "bearer", "handle"}
      [] entry = "unary" -> {"route", "key", "authenticate", "authorize", "deduplicate", "handle"}
      [] entry = "stream" -> {"route", "header", "key", "authenticate", "handle"}

Placed(s) == s.pc \in Stages(s.input.entry) \cup {"idle", "unwind", "done"}

\* Nothing is answered before the way back, and one answer leaves.
Counted(s) ==
    /\ s.pc = "done" => s.answers = 1
    /\ s.pc = "unwind" => s.answers \in {0, 1}
    /\ s.pc \notin {"unwind", "done"} => s.answers = 0

Guarded == {"api", "unary", "stream"}

\* Past authentication the credential is the one the route calls for.
Authenticated(s) ==
    LET r == s.input.route
        c == s.input.credential IN
    (s.pc \in {"authorize", "user", "deduplicate"} \/ (s.pc = "handle" /\ s.input.entry \in Guarded)) =>
        /\ r \in PskRoutes => c.scheme = "psk" /\ c.valid
        /\ r \notin PskRoutes \cup SkipRoutes => c.scheme = "bearer" /\ c.valid /\ s.principal = c.subject

\* Past the token of the diagnostic groups.
Admitted(s) ==
    LET c == s.input.credential IN
    s.pc = "handle" =>
        /\ s.input.entry = "swagger" => c.scheme = "bearer" /\ c.valid /\ s.principal = c.subject
        /\ s.input.entry = "pprof" => c.scheme = "pprof" /\ c.valid

\* Past authorization.
Permitted(s) ==
    (s.pc \in {"user", "deduplicate"} \/ (s.pc = "handle" /\ s.input.entry \in {"api", "unary"})) => s.permitted

\* A subject has been charged for only past the last limit.
Own(s) ==
    /\ s.subject # "" => s.principal # ""
    /\ \A b \in s.charged :
          b[1] = "user" =>
            /\ s.pc \in {"handle", "unwind", "done"}
            /\ s.principal # "" /\ s.subject = b[2] /\ s.permitted

\* The limits that lie behind a stage of /api/v1.
Behind(pc) ==
    IF pc = "api" THEN {"ip"}
    ELSE IF pc \in {"authenticate", "authorize", "user"} THEN {"ip", "api"}
    ELSE IF pc = "handle" THEN Limits ELSE {}

Paid(s) ==
    (s.input.entry = "api" /\ LimiterEnabled /\ s.pc \in Stage) =>
        Settled(s) = {k \in Behind(s.pc) : LimitKey(s, k) # ""}

Good(s) ==
    Placed(s) /\ Counted(s) /\ Authenticated(s) /\ Admitted(s) /\ Permitted(s) /\ Own(s) /\ Paid(s)

GoodState == {s \in State : Good(s)}

IInv == TypeOK /\ \A t \in Thread : request[t] \in GoodState

-----------------------------------------------------------------------------
(* The chains.                                                             *)

LEMMA Stagewise == \A e \in Entry : Stages(e) \subseteq Stage
BY DEF Entry, Http, Stages, Stage

\* Which stage follows which.
LEMMA Order ==
    ASSUME NEW s \in State, s.pc \in Stages(s.input.entry) \ {"handle"}
    PROVE  /\ s.input.entry \in Entry
           /\ After(s) \in Stages(s.input.entry)
           /\ s.pc = "key" => After(s) \in {"cors", "authenticate"}
           /\ s.pc = "cors" => After(s) = "json"
           /\ s.pc = "json" => After(s) = "route"
           /\ s.pc = "header" => After(s) = "key"
           /\ s.pc = "route" => \/ s.input.entry = "api" /\ After(s) = "ip"
                                \/ s.input.entry = "open" /\ After(s) = "handle"
                                \/ After(s) \in {"token", "bearer", "key", "header"}
           /\ s.pc \in Limits => s.input.entry = "api"
           /\ s.pc = "ip" => After(s) = "api"
           /\ s.pc = "api" => After(s) = "authenticate"
           /\ s.pc = "user" => After(s) = "handle"
           /\ s.pc = "authenticate" => \/ After(s) = "authorize"
                                       \/ After(s) = "handle" /\ s.input.entry = "stream"
           /\ s.pc = "authorize" => After(s) \in {"user", "deduplicate"}
           /\ s.pc = "authorize" /\ s.input.entry = "api" => After(s) = "user"
           /\ s.pc = "token" => s.input.entry = "pprof" /\ After(s) = "handle"
           /\ s.pc = "bearer" => s.input.entry = "swagger" /\ After(s) = "handle"
           /\ s.pc = "deduplicate" => s.input.entry = "unary" /\ After(s) = "handle"
<1>1. s.input.entry \in Entry
  <2>1. s.input \in Input
    BY DEF State
  <2> QED
    BY <2>1, PipelineAssumption
<1>2. CASE s.input.entry = "api"
  BY <1>2 DEF After, Chain, ApiChain, Stages, Limits, Entry, Http
<1>3. CASE s.input.entry = "open"
  BY <1>3 DEF After, Chain, Stages, Limits, Entry, Http
<1>4. CASE s.input.entry = "pprof"
  BY <1>4 DEF After, Chain, Stages, Limits, Entry, Http
<1>5. CASE s.input.entry = "swagger"
  BY <1>5 DEF After, Chain, Stages, Limits, Entry, Http
<1>6. CASE s.input.entry = "unary"
  BY <1>6 DEF After, Chain, Stages, Limits, Entry, Http
<1>7. CASE s.input.entry = "stream"
  BY <1>7 DEF After, Chain, Stages, Limits, Entry, Http
<1> QED
  BY <1>1, <1>2, <1>3, <1>4, <1>5, <1>6, <1>7 DEF Entry, Http
-----------------------------------------------------------------------------
(* What a stage makes of a good request.                                   *)

\* A request that is at a stage.
Underway(s) == s \in State /\ Good(s) /\ s.pc \in Stage

LEMMA AtStage ==
    ASSUME NEW s, Underway(s)
    PROVE  /\ s \in State /\ Good(s) /\ s.pc \in Stages(s.input.entry)
           /\ s.answers = 0 /\ s.input.entry \in Entry
<1>1. s \in State /\ Good(s) /\ s.pc \in Stage
  BY DEF Underway
<1>2. s.pc \notin {"idle", "unwind", "done"}
  BY <1>1 DEF Stage
<1>3. s.input \in Input
  BY <1>1 DEF State
<1> QED
  BY <1>1, <1>2, <1>3 DEF Good, Placed, Counted

\* An answer sends it back.
LEMMA ReplyGood ==
    ASSUME NEW s, Underway(s)
    PROVE  Replied(s) \in State /\ Good(Replied(s))
<1> DEFINE m == [s EXCEPT !.pc = "unwind"]
           n == [m EXCEPT !.answers = 1]
<1>1. s \in State /\ Good(s) /\ s.answers = 0
  BY AtStage
<1>2. /\ m \in State /\ m.pc = "unwind" /\ m.input = s.input
      /\ m.subject = s.subject /\ m.principal = s.principal /\ m.permitted = s.permitted
      /\ m.charged = s.charged
  BY <1>1 DEF State
<1> HIDE DEF m
<1>3. /\ n \in State /\ n.pc = "unwind" /\ n.answers = 1 /\ n.input = s.input
      /\ n.subject = s.subject /\ n.principal = s.principal /\ n.permitted = s.permitted
      /\ n.charged = s.charged
  BY <1>2 DEF State
<1>4. Replied(s) = n
  BY <1>1 DEF Replied, m
<1> HIDE DEF n
<1>5. Good(n)
  BY <1>1, <1>3 DEF Good, Placed, Counted, Authenticated, Admitted, Permitted, Own, Paid, Stage
<1> QED
  BY <1>3, <1>4, <1>5

\* Whatever sends a request on without an answer: what is known of it, stage
\* by stage, makes it good at the next stage.
LEMMA PassType ==
    ASSUME NEW s, Underway(s), s.pc # "handle"
    PROVE  /\ Passed(s) \in State
           /\ Passed(s) = [s EXCEPT !.pc = After(s)]
           /\ Passed(s).pc = After(s) /\ After(s) \in Stages(s.input.entry) /\ After(s) \in Stage
<1>1. s \in State /\ s.pc \in Stages(s.input.entry) /\ s.input.entry \in Entry
  BY AtStage
<1>2. After(s) \in Stages(s.input.entry)
  BY <1>1, Order
<1>3. After(s) \in Stage
  BY <1>1, <1>2, Stagewise
<1> QED
  BY <1>1, <1>2, <1>3 DEF Passed, State

\* A stage that limits nothing leaves a good request, if what is known of it
\* suffices for the next.
LEMMA PassGood ==
    ASSUME NEW s, Underway(s), s.pc \notin Limits \cup {"handle"},
           Authenticated(Passed(s)), Admitted(Passed(s)), Permitted(Passed(s))
    PROVE  Passed(s) \in State /\ Good(Passed(s))
<1> DEFINE n == Passed(s)
<1>1. s \in State /\ Good(s) /\ s.pc \in Stages(s.input.entry) /\ s.answers = 0
  BY AtStage
<1>2. n \in State /\ n.pc = After(s) /\ After(s) \in Stages(s.input.entry) /\ After(s) \in Stage
  BY PassType
<1>3. /\ n.answers = 0 /\ n.input = s.input /\ n.excused = s.excused
      /\ n.subject = s.subject /\ n.principal = s.principal /\ n.permitted = s.permitted
      /\ n.charged = s.charged
  BY <1>1 DEF Passed, State
<1>4. Placed(n) /\ Counted(n)
  BY <1>2, <1>3 DEF Placed, Counted, Stage
<1>5. Own(n)
  BY <1>1, <1>3, <1>2 DEF Good, Own, Underway, Stage
<1>6. Paid(n)
  <2>1. \A k \in Limits : LimitKey(n, k) = LimitKey(s, k)
    BY <1>3 DEF LimitKey
  <2>2. Settled(n) = Settled(s)
    BY <1>3 DEF Settled
  <2>3. s.input.entry = "api" => Behind(After(s)) = Behind(s.pc)
    <3> SUFFICES ASSUME s.input.entry = "api" PROVE Behind(After(s)) = Behind(s.pc)
      OBVIOUS
    <3>1. s.pc \in {"key", "cors", "json", "route", "authenticate", "authorize"}
      BY <1>1 DEF Stages, Limits
    <3>2. After(s) = ApiChain[s.pc]
      BY DEF After, Chain
    <3>3. /\ s.pc \in {"key", "cors", "json", "route"} => After(s) \in {"cors", "json", "route", "ip"}
          /\ s.pc \in {"authenticate", "authorize"} => After(s) \in {"authorize", "user"}
      BY <3>2 DEF ApiChain
    <3> QED
      BY <3>1, <3>3 DEF Behind
  <2>4. \A x : Behind(x) \subseteq Limits
    BY DEF Behind, Limits
  <2> QED
    BY <1>1, <1>2, <1>3, <2>1, <2>2, <2>3, <2>4 DEF Good, Paid, Underway
<1> QED
  BY <1>2, <1>4, <1>5, <1>6 DEF Good

\* The stages that only look at the request.
LEMMA LookGood ==
    ASSUME NEW s, Underway(s), s.pc \in {"key", "cors", "json", "header", "route", "deduplicate"}
    PROVE  Passed(s) \in State /\ Good(Passed(s))
<1> DEFINE n == Passed(s)
<1>1. s \in State /\ Good(s) /\ s.pc \in Stages(s.input.entry)
  BY AtStage
<1>2. n.pc = After(s) /\ n.input = s.input /\ n.principal = s.principal /\ n.permitted = s.permitted
  BY <1>1, PassType DEF Passed, State
<1>3. /\ s.pc = "key" => After(s) \in {"cors", "authenticate"}
      /\ s.pc = "cors" => After(s) = "json"
      /\ s.pc = "json" => After(s) = "route"
      /\ s.pc = "header" => After(s) = "key"
      /\ s.pc = "route" => \/ s.input.entry = "api" /\ After(s) = "ip"
                           \/ s.input.entry = "open" /\ After(s) = "handle"
                           \/ After(s) \in {"token", "bearer", "key", "header"}
      /\ s.pc = "deduplicate" => s.input.entry = "unary" /\ After(s) = "handle"
  BY <1>1, Order
<1>4. Authenticated(n) /\ Admitted(n) /\ Permitted(n)
  BY <1>1, <1>2, <1>3 DEF Good, Authenticated, Admitted, Permitted, Guarded
<1> QED
  BY <1>4, PassGood DEF Limits

\* No route: the chain returns without an answer.
LEMMA NoRouteGood ==
    ASSUME NEW s, Underway(s)
    PROVE  [s EXCEPT !.pc = "unwind"] \in State /\ Good([s EXCEPT !.pc = "unwind"])
<1> DEFINE n == [s EXCEPT !.pc = "unwind"]
<1>1. s \in State /\ Good(s) /\ s.answers = 0
  BY AtStage
<1>2. /\ n \in State /\ n.pc = "unwind" /\ n.answers = 0 /\ n.input = s.input
      /\ n.subject = s.subject /\ n.principal = s.principal /\ n.permitted = s.permitted
      /\ n.charged = s.charged
  BY <1>1 DEF State
<1> HIDE DEF n
<1>3. Good(n)
  BY <1>1, <1>2 DEF Good, Placed, Counted, Authenticated, Admitted, Permitted, Own, Paid, Stage
<1> QED
  BY <1>2, <1>3 DEF n

\* Who the request is from is established before anything is charged to it.
LEMMA IdentifyGood ==
    ASSUME NEW s, Underway(s), s.pc \in {"authenticate", "bearer"},
           NEW who \in Subject \cup {""}, NEW principal \in Subject \cup {"", "search-service:psk"},
           who # "" => principal # ""
    PROVE  /\ Underway(Identified(s, who, principal))
           /\ Identified(s, who, principal).pc = s.pc
           /\ Identified(s, who, principal).input = s.input
           /\ Identified(s, who, principal).principal = principal
<1> DEFINE m == [s EXCEPT !.subject = who]
           n == [m EXCEPT !.principal = principal]
<1>1. s \in State /\ Good(s) /\ s.pc \in Stages(s.input.entry)
  BY AtStage
<1>2. /\ m \in State /\ m.pc = s.pc /\ m.answers = s.answers /\ m.input = s.input
      /\ m.subject = who /\ m.permitted = s.permitted /\ m.charged = s.charged /\ m.excused = s.excused
  BY <1>1 DEF State
<1> HIDE DEF m
<1>3. /\ n \in State /\ n.pc = s.pc /\ n.answers = s.answers /\ n.input = s.input
      /\ n.subject = who /\ n.permitted = s.permitted /\ n.charged = s.charged /\ n.excused = s.excused
      /\ n.principal = principal
  BY <1>2 DEF State
<1>4. Identified(s, who, principal) = n
  BY <1>1 DEF Identified, m
<1> HIDE DEF n
<1>5. Placed(n) /\ Counted(n) /\ Authenticated(n) /\ Admitted(n) /\ Permitted(n) /\ Own(n)
  BY <1>1, <1>3 DEF Good, Placed, Counted, Authenticated, Admitted, Permitted, Own
<1>6. Paid(n)
  <2>1. \A k \in {"ip", "api"} : LimitKey(n, k) = LimitKey(s, k)
    BY <1>3 DEF LimitKey
  <2>2. Settled(n) = Settled(s)
    BY <1>3 DEF Settled
  <2>3. Behind(s.pc) \subseteq {"ip", "api"}
    BY DEF Behind, Limits
  <2>4. {k \in Behind(n.pc) : LimitKey(n, k) # ""} = {k \in Behind(s.pc) : LimitKey(s, k) # ""}
    BY <1>3, <2>1, <2>3
  <2> QED
    BY <1>1, <1>3, <2>2, <2>4 DEF Good, Paid
<1> QED
  BY <1>3, <1>4, <1>5, <1>6 DEF Good, Underway, Stage

LEMMA AuthenticateGood ==
    ASSUME NEW s, Underway(s), s.pc = "authenticate",
           s.input.route \in PskRoutes => s.input.credential.scheme = "psk" /\ s.input.credential.valid,
           s.input.route \notin PskRoutes \cup SkipRoutes =>
              /\ s.input.credential.scheme = "bearer" /\ s.input.credential.valid
              /\ s.principal = s.input.credential.subject
    PROVE  Passed(s) \in State /\ Good(Passed(s))
<1> DEFINE n == Passed(s)
<1>1. s \in State /\ Good(s) /\ s.pc \in Stages(s.input.entry)
  BY AtStage
<1>2. n.pc = After(s) /\ n.input = s.input /\ n.principal = s.principal /\ n.permitted = s.permitted
  BY <1>1, PassType DEF Passed, State
<1>3. After(s) = "authorize" \/ (After(s) = "handle" /\ s.input.entry = "stream")
  BY <1>1, Order
<1>4. Authenticated(n) /\ Admitted(n) /\ Permitted(n)
  BY <1>2, <1>3 DEF Authenticated, Admitted, Permitted
<1> QED
  BY <1>4, PassGood DEF Limits

LEMMA AdmitGood ==
    ASSUME NEW s, Underway(s), s.pc \in {"bearer", "token"}, s.input.credential.valid,
           s.pc = "bearer" =>
              s.input.credential.scheme = "bearer" /\ s.principal = s.input.credential.subject,
           s.pc = "token" => s.input.credential.scheme = "pprof"
    PROVE  Passed(s) \in State /\ Good(Passed(s))
<1> DEFINE n == Passed(s)
<1>1. s \in State /\ Good(s) /\ s.pc \in Stages(s.input.entry)
  BY AtStage
<1>2. n.pc = After(s) /\ n.input = s.input /\ n.principal = s.principal /\ n.permitted = s.permitted
  BY <1>1, PassType DEF Passed, State
<1>3. /\ s.pc = "token" => s.input.entry = "pprof" /\ After(s) = "handle"
      /\ s.pc = "bearer" => s.input.entry = "swagger" /\ After(s) = "handle"
  BY <1>1, Order
<1>4. Authenticated(n) /\ Admitted(n) /\ Permitted(n)
  BY <1>2, <1>3 DEF Authenticated, Admitted, Permitted, Guarded
<1> QED
  BY <1>4, PassGood DEF Limits

LEMMA AuthorizeGood ==
    ASSUME NEW s, Underway(s), s.pc = "authorize"
    PROVE  LET n == Passed([s EXCEPT !.permitted = TRUE]) IN n \in State /\ Good(n)
<1> DEFINE m == [s EXCEPT !.permitted = TRUE]
           n == Passed(m)
<1>1. s \in State /\ Good(s) /\ s.pc \in Stages(s.input.entry)
  BY AtStage
<1>2. /\ m \in State /\ m.pc = s.pc /\ m.answers = s.answers /\ m.input = s.input /\ m.permitted
      /\ m.subject = s.subject /\ m.principal = s.principal /\ m.charged = s.charged
      /\ m.excused = s.excused
  BY <1>1 DEF State
<1> HIDE DEF m
<1>3. Placed(m) /\ Counted(m) /\ Authenticated(m) /\ Admitted(m) /\ Permitted(m) /\ Own(m)
  BY <1>1, <1>2 DEF Good, Placed, Counted, Authenticated, Admitted, Permitted, Own
<1>4. Paid(m)
  <2>1. \A k \in Limits : LimitKey(m, k) = LimitKey(s, k)
    BY <1>2 DEF LimitKey
  <2>2. Settled(m) = Settled(s)
    BY <1>2 DEF Settled
  <2>3. Behind(s.pc) \subseteq Limits
    BY DEF Behind, Limits
  <2> QED
    BY <1>1, <1>2, <2>1, <2>2, <2>3 DEF Good, Paid
<1>5. Underway(m)
  BY <1>2, <1>3, <1>4 DEF Good, Underway, Stage
<1>6. n.pc = After(m) /\ n.input = m.input /\ n.principal = m.principal /\ n.permitted
  BY <1>2, <1>5, PassType DEF Passed, State
<1>7. After(m) \in {"user", "deduplicate"}
  BY <1>1, <1>2, Order
<1>8. Authenticated(n) /\ Admitted(n) /\ Permitted(n)
  BY <1>2, <1>3, <1>6, <1>7 DEF Authenticated, Admitted, Permitted
<1>9. n \in State /\ Good(n)
  BY <1>2, <1>5, <1>8, PassGood DEF Limits
<1> QED
  BY <1>9 DEF m

\* The limits that buckets belong to.
Dimensions(charged) == {b[1] : b \in charged}

\* The next stage, with these charges and excuses.
Onward(s, charged, excused) == [s EXCEPT !.pc = After(s), !.charged = charged, !.excused = excused]

\* A limit that has been paid, excused or does not apply lies behind, and the
\* budget of a subject is the last that is charged.
LEMMA LimitGood ==
    ASSUME NEW s, Underway(s), s.pc \in Limits,
           NEW charged \in SUBSET Bucket, NEW excused \in SUBSET Limits,
           \A b \in charged : \/ b \in s.charged
                              \/ b[1] = s.pc /\ b[2] = LimitKey(s, s.pc) /\ b[2] # "",
           LimiterEnabled =>
              Dimensions(charged) \cup excused = Settled(s) \cup {k \in {s.pc} : LimitKey(s, k) # ""}
    PROVE  Onward(s, charged, excused) \in State /\ Good(Onward(s, charged, excused))
<1> DEFINE m1 == [s EXCEPT !.pc = After(s)]
           m2 == [m1 EXCEPT !.charged = charged]
           n == [m2 EXCEPT !.excused = excused]
<1>1. /\ s \in State /\ Good(s) /\ s.pc \in Stages(s.input.entry) /\ s.answers = 0
      /\ s.pc \notin {"handle", "unwind", "done"}
  BY AtStage DEF Limits
<1>2. /\ m1 \in State /\ m1.pc = After(s) /\ m1.input = s.input /\ m1.subject = s.subject
      /\ m1.principal = s.principal /\ m1.permitted = s.permitted /\ m1.answers = 0
      /\ After(s) \in Stages(s.input.entry) /\ After(s) \in Stage
  BY <1>1, PassType DEF Passed, State
<1> HIDE DEF m1
<1>3. /\ m2 \in State /\ m2.pc = After(s) /\ m2.input = s.input /\ m2.subject = s.subject
      /\ m2.principal = s.principal /\ m2.permitted = s.permitted /\ m2.answers = 0
      /\ m2.charged = charged
  BY <1>2 DEF State
<1> HIDE DEF m2
<1>4. /\ n \in State /\ n.pc = After(s) /\ n.input = s.input /\ n.subject = s.subject
      /\ n.principal = s.principal /\ n.permitted = s.permitted /\ n.answers = 0
      /\ n.charged = charged /\ n.excused = excused
  BY <1>3 DEF State
<1>5. Onward(s, charged, excused) = n
  BY <1>1 DEF m1, m2, State, Onward
<1> HIDE DEF n
<1>6. /\ s.input.entry = "api"
      /\ s.pc = "ip" => After(s) = "api"
      /\ s.pc = "api" => After(s) = "authenticate"
      /\ s.pc = "user" => After(s) = "handle"
  BY <1>1, Order
<1>7. Placed(n) /\ Counted(n)
  BY <1>2, <1>4 DEF Placed, Counted, Stage
<1>8. Authenticated(n) /\ Admitted(n) /\ Permitted(n)
  BY <1>1, <1>4, <1>6 DEF Good, Authenticated, Admitted, Permitted, Limits
<1>9. Own(n)
  <2>1. n.subject # "" => n.principal # ""
    BY <1>1, <1>4 DEF Good, Own
  <2>2. ASSUME NEW b \in charged, b[1] = "user"
        PROVE  /\ n.pc \in {"handle", "unwind", "done"}
               /\ n.principal # "" /\ n.subject = b[2] /\ n.permitted
    <3>1. b \notin s.charged
      BY <1>1, <2>2 DEF Good, Own
    <3>2. s.pc = "user" /\ b[2] = LimitKey(s, "user") /\ b[2] # ""
      BY <2>2, <3>1
    <3>3. b[2] = s.subject
      BY <3>2 DEF LimitKey
    <3> QED
      BY <1>1, <1>4, <1>6, <2>1, <3>2, <3>3 DEF Good, Permitted
  <2> QED
    BY <1>4, <2>1, <2>2 DEF Own
<1>10. Paid(n)
  <2> SUFFICES ASSUME LimiterEnabled
               PROVE  Settled(n) = {k \in Behind(n.pc) : LimitKey(n, k) # ""}
    BY DEF Paid
  <2>1. \A k \in Limits : LimitKey(n, k) = LimitKey(s, k)
    BY <1>4 DEF LimitKey
  <2>2. Settled(n) = Settled(s) \cup {k \in {s.pc} : LimitKey(s, k) # ""}
    BY <1>4 DEF Settled, Dimensions
  <2>3. Settled(s) = {k \in Behind(s.pc) : LimitKey(s, k) # ""}
    BY <1>1, <1>6 DEF Good, Paid, Underway
  <2>4. Behind(n.pc) = Behind(s.pc) \cup {s.pc} /\ Behind(n.pc) \subseteq Limits
    BY ZenonT(40), <1>4, <1>6 DEF Behind, Limits
  <2> QED
    BY <2>1, <2>2, <2>3, <2>4
<1> QED
  BY <1>4, <1>5, <1>7, <1>8, <1>9, <1>10 DEF Good

LEMMA NewGood == \A i \in Input : New(i) \in State /\ Good(New(i))
<1> SUFFICES ASSUME NEW i \in Input PROVE New(i) \in State /\ Good(New(i))
  OBVIOUS
<1>1. i.entry \in Entry
  BY PipelineAssumption
<1>2. First(i.entry) \in {"key", "route"} /\ First(i.entry) \in Stages(i.entry)
  BY <1>1 DEF First, Stages, Entry, Http
<1>3. New(i) \in State
  BY <1>2 DEF New, State, Stage
<1>4. /\ New(i).pc \in {"key", "route"} /\ New(i).pc = First(i.entry) /\ New(i).input = i
      /\ New(i).subject = "" /\ New(i).charged = {} /\ New(i).excused = {} /\ New(i).answers = 0
  BY <1>2 DEF New
<1>5. Settled(New(i)) = {} /\ Behind(New(i).pc) = {}
  BY <1>4 DEF Settled, Behind
<1> QED
  BY <1>2, <1>3, <1>4, <1>5 DEF Good, Placed, Counted, Authenticated, Admitted, Permitted, Own, Paid

LEMMA IdleGood == Idle \in State /\ Good(Idle)
<1> DEFINE i == CHOOSE i \in Input : TRUE
           n == [New(i) EXCEPT !.pc = "idle"]
<1>1. i \in Input
  BY PipelineAssumption
<1> HIDE DEF i
<1>2. /\ n \in State /\ n.pc = "idle" /\ n.input = i
      /\ n.subject = "" /\ n.charged = {} /\ n.answers = 0
  BY <1>1, NewGood DEF New, State
<1>3. Good(n)
  BY <1>2 DEF Good, Placed, Counted, Authenticated, Admitted, Permitted, Own, Paid, Stage
<1> QED
  BY <1>2, <1>3 DEF Idle, i

\* Recovery's answer, and whatever Timeout or the router adds.
LEMMA DoneGood ==
    ASSUME NEW s \in State, Good(s), s.pc \in {"handle", "unwind"}
    PROVE  LET n == [s EXCEPT !.pc = "done", !.answers = 1] IN n \in State /\ Good(n)
<1> DEFINE m == [s EXCEPT !.pc = "done"]
           n == [m EXCEPT !.answers = 1]
<1>1. /\ m \in State /\ m.pc = "done" /\ m.input = s.input
      /\ m.subject = s.subject /\ m.principal = s.principal /\ m.permitted = s.permitted
      /\ m.charged = s.charged
  BY DEF State
<1> HIDE DEF m
<1>2. /\ n \in State /\ n.pc = "done" /\ n.answers = 1 /\ n.input = s.input
      /\ n.subject = s.subject /\ n.principal = s.principal /\ n.permitted = s.permitted
      /\ n.charged = s.charged
  BY <1>1 DEF State
<1>3. [s EXCEPT !.pc = "done", !.answers = 1] = n
  BY DEF m, State
<1> HIDE DEF n
<1>4. Good(n)
  BY <1>2 DEF Good, Placed, Counted, Authenticated, Admitted, Permitted, Own, Paid, Stage
<1> QED
  BY <1>2, <1>3, <1>4

-----------------------------------------------------------------------------
(* Every step.                                                             *)

\* A step is one request's: if what it becomes is good, the invariant holds.
LEMMA Becoming ==
    ASSUME IInv, NEW t \in Thread, NEW s \in State, Good(s), Become(t, s),
           budget' \in [Bucket -> 0..Burst]
    PROVE  IInv'
<1>1. request' \in [Thread -> State]
  BY DEF IInv, TypeOK, Become
<1>2. s \in GoodState
  BY DEF GoodState
<1>3. \A u \in Thread : request'[u] \in GoodState
  BY <1>2 DEF IInv, TypeOK, Become
<1> QED
  BY <1>1, <1>3 DEF IInv, TypeOK

\* The bucket of a limit exists and pays at most what it holds.
LEMMA BucketTyped ==
    ASSUME IInv, NEW t \in Thread, Limited(t)
    PROVE  /\ BucketOf(t) \in Bucket
           /\ budget[BucketOf(t)] > 0 =>
                 [budget EXCEPT ![BucketOf(t)] = @ - 1] \in [Bucket -> 0..Burst]
<1> DEFINE s == request[t]
<1>1. s \in State /\ s.input \in Input /\ s.subject \in Subject \cup {""}
  BY DEF IInv, TypeOK, State
<1>2. s.pc \in Limits /\ LimitKey(s, s.pc) # ""
  BY DEF Limited
<1>3. <<s.pc, LimitKey(s, s.pc)>> \in Bucket
  BY <1>1, <1>2 DEF Limits, LimitKey, Bucket
<1>4. BucketOf(t) \in Bucket
  BY <1>3 DEF BucketOf
<1>5. budget \in [Bucket -> 0..Burst] /\ Burst \in Nat
  BY DEF IInv, TypeOK
<1> QED
  BY <1>4, <1>5

LEMMA Kept == ASSUME IInv, UNCHANGED budget PROVE budget' \in [Bucket -> 0..Burst]
BY DEF IInv, TypeOK

\* A request at a stage is good and under way.
LEMMA Serving ==
    ASSUME IInv, NEW t \in Thread, request[t].pc \in Stage
    PROVE  Underway(request[t]) /\ request[t] \in State /\ request[t].input \in Input
BY DEF IInv, TypeOK, Underway, State, GoodState

LEMMA Init_IInv == Init => IInv
<1> SUFFICES ASSUME Init PROVE IInv
  OBVIOUS
<1>1. \A t \in Thread : request[t] = Idle
  BY DEF Init
<1>2. request \in [Thread -> State]
  BY IdleGood DEF Init
<1>3. budget \in [Bucket -> 0..Burst]
  BY PipelineAssumption DEF Init
<1> QED
  BY <1>1, <1>2, <1>3, IdleGood DEF IInv, TypeOK, GoodState

LEMMA Looking ==
    ASSUME IInv, NEW t \in Thread,
           IdempotencyKey(t) \/ CORS(t) \/ RequireJSON(t) \/ SendHeader(t) \/ Route(t) \/ Deduplicate(t)
    PROVE  IInv'
<1> DEFINE s == request[t]
<1>1. /\ s.pc \in {"key", "cors", "json", "header", "route", "deduplicate"}
      /\ \/ Become(t, Replied(s)) \/ Become(t, Passed(s)) \/ Become(t, [s EXCEPT !.pc = "unwind"])
      /\ UNCHANGED budget
  BY DEF IdempotencyKey, CORS, RequireJSON, SendHeader, Refuse, Route, Deduplicate
<1>2. Underway(s)
  BY <1>1, Serving DEF Stage
<1> QED
  BY <1>1, <1>2, Kept, ReplyGood, LookGood, NoRouteGood, Becoming

LEMMA Limiting ==
    ASSUME IInv, NEW t \in Thread, NoLimit(t) \/ Allow(t) \/ LimiterFails(t)
    PROVE  IInv'
<1> DEFINE s == request[t]
           b == BucketOf(t)
<1>1. s.pc \in Limits
  BY DEF NoLimit, Allow, LimiterFails, Limited
<1>2. Underway(s) /\ s \in State
  BY <1>1, Serving DEF Stage, Limits
<1>3. s.charged \in SUBSET Bucket /\ s.excused \in SUBSET Limits
  BY <1>2 DEF State
<1>4. CASE NoLimit(t)
  <2>1. LimiterEnabled => LimitKey(s, s.pc) = ""
    BY <1>4 DEF NoLimit, Limited
  <2>2. Passed(s) = Onward(s, s.charged, s.excused)
    BY <1>2 DEF Passed, State, Onward
  <2>3. LimiterEnabled =>
           Dimensions(s.charged) \cup s.excused = Settled(s) \cup {k \in {s.pc} : LimitKey(s, k) # ""}
    BY <2>1 DEF Settled, Dimensions
  <2>4. Passed(s) \in State /\ Good(Passed(s))
    BY <1>1, <1>2, <1>3, <2>2, <2>3, LimitGood
  <2> QED
    BY <1>4, <2>4, Kept, Becoming DEF NoLimit
<1>5. CASE Limited(t) /\ Become(t, Replied(s)) /\ UNCHANGED budget
  BY <1>2, <1>5, Kept, ReplyGood, Becoming
<1>6. CASE /\ Limited(t) /\ budget[b] > 0
           /\ budget' = [budget EXCEPT ![b] = @ - 1]
           /\ Become(t, Passed([s EXCEPT !.charged = @ \cup {b}]))
  <2> DEFINE charged == s.charged \cup {b}
             n == Passed([s EXCEPT !.charged = @ \cup {b}])
  <2>1. b \in Bucket /\ budget' \in [Bucket -> 0..Burst]
    BY <1>6, BucketTyped
  <2>2. b[1] = s.pc /\ b[2] = LimitKey(s, s.pc) /\ LimitKey(s, s.pc) # ""
    BY <1>6 DEF BucketOf, Limited
  <2>3. n = Onward(s, charged, s.excused)
    BY <1>2 DEF Passed, State, After, Onward
  <2> HIDE DEF b
  <2>4. Dimensions(charged) \cup s.excused = Settled(s) \cup {k \in {s.pc} : LimitKey(s, k) # ""}
    <3>1. Dimensions(charged) = Dimensions(s.charged) \cup {s.pc}
      BY <2>2 DEF Dimensions
    <3> QED
      BY <2>2, <3>1 DEF Settled, Dimensions
  <2>5. charged \in SUBSET Bucket
    BY <1>3, <2>1
  <2>6. \A x \in charged : x \in s.charged \/ (x[1] = s.pc /\ x[2] = LimitKey(s, s.pc) /\ x[2] # "")
    BY <2>2
  <2> HIDE DEF n, charged
  <2>7. n \in State /\ Good(n)
    <3>1. Onward(s, charged, s.excused) \in State /\ Good(Onward(s, charged, s.excused))
      BY <1>1, <1>2, <1>3, <2>4, <2>5, <2>6, LimitGood
    <3> QED
      BY <2>3, <3>1
  <2> USE DEF n
  <2> QED
    BY <1>6, <2>1, <2>7, Becoming
<1>7. CASE Limited(t) /\ Become(t, Passed([s EXCEPT !.excused = @ \cup {s.pc}])) /\ UNCHANGED budget
  <2> DEFINE excused == s.excused \cup {s.pc}
             n == Passed([s EXCEPT !.excused = @ \cup {s.pc}])
  <2>1. n = Onward(s, s.charged, excused)
    BY <1>2 DEF Passed, State, After, Onward
  <2>2. LimitKey(s, s.pc) # ""
    BY <1>7 DEF Limited
  <2>3. Dimensions(s.charged) \cup excused = Settled(s) \cup {k \in {s.pc} : LimitKey(s, k) # ""}
    BY <2>2 DEF Settled, Dimensions
  <2>4. excused \in SUBSET Limits
    BY <1>1, <1>3
  <2> HIDE DEF n, excused
  <2>5. n \in State /\ Good(n)
    <3>1. Onward(s, s.charged, excused) \in State /\ Good(Onward(s, s.charged, excused))
      BY <1>1, <1>2, <1>3, <2>3, <2>4, LimitGood
    <3> QED
      BY <2>1, <3>1
  <2> USE DEF n
  <2> QED
    BY <1>7, <2>5, Kept, Becoming
<1> QED
  BY <1>4, <1>5, <1>6, <1>7 DEF Allow, LimiterFails

\* Authentication by either means, and the token of the diagnostic groups.
LEMMA Authenticating ==
    ASSUME IInv, NEW t \in Thread, Authenticate(t) \/ Bearer(t) \/ PprofToken(t)
    PROVE  IInv'
<1> DEFINE s == request[t]
           route == s.input.route
           who == s.input.credential.subject
           known == Identified(s, who, who)
           psk == Identified(s, "psk", "search-service:psk")
<1>1. s.pc \in {"authenticate", "bearer", "token"} /\ UNCHANGED budget
  BY DEF Authenticate, Bearer, PprofToken
<1>2. Underway(s) /\ s.input \in Input
  BY <1>1, Serving DEF Stage
<1>3. who \in Subject /\ "psk" \in Subject
  BY <1>2 DEF Subject
<1>4. CASE Become(t, Replied(s))
  BY <1>1, <1>2, <1>4, Kept, ReplyGood, Becoming
<1>5. s.pc \in {"authenticate", "bearer"} =>
         /\ Underway(psk) /\ psk.pc = s.pc /\ psk.input = s.input
         /\ Underway(known) /\ known.pc = s.pc /\ known.input = s.input /\ known.principal = who
  <2> HIDE DEF s, who, known, psk
  <2> SUFFICES ASSUME s.pc \in {"authenticate", "bearer"}
               PROVE  /\ Underway(psk) /\ psk.pc = s.pc /\ psk.input = s.input
                      /\ Underway(known) /\ known.pc = s.pc /\ known.input = s.input /\ known.principal = who
    OBVIOUS
  <2>1. Underway(known) /\ known.pc = s.pc /\ known.input = s.input /\ known.principal = who
    <3>1. who \in Subject \cup {""} /\ who \in Subject \cup {"", "search-service:psk"}
      BY <1>3
    <3> QED
      BY <1>2, <3>1, IdentifyGood DEF known
  <2>2. Underway(psk) /\ psk.pc = s.pc /\ psk.input = s.input
    <3>1. "psk" \in Subject \cup {""} /\ "search-service:psk" \in Subject \cup {"", "search-service:psk"}
      BY <1>3
    <3> QED
      BY <1>2, <3>1, IdentifyGood DEF psk
  <2> QED
    BY <2>1, <2>2
<1>6. CASE /\ s.pc = "authenticate" /\ route \in PskRoutes /\ Presents(t, "psk")
           /\ Become(t, Passed(psk))
  <2>1. Underway(psk) /\ psk.pc = s.pc /\ psk.input = s.input
    BY <1>6, <1>5
  <2>2. Passed(psk) \in State /\ Good(Passed(psk))
    BY <1>6, <2>1, AuthenticateGood DEF Presents
  <2> QED
    BY <1>1, <1>6, <2>2, Kept, Becoming
<1>7. CASE /\ s.pc = "authenticate" /\ route \in SkipRoutes \ PskRoutes
           /\ Become(t, Passed(s))
  <2>1. Passed(s) \in State /\ Good(Passed(s))
    BY <1>2, <1>7, AuthenticateGood
  <2> QED
    BY <1>1, <1>7, <2>1, Kept, Becoming
<1>8. CASE /\ s.pc = "authenticate" /\ route \notin PskRoutes \cup SkipRoutes /\ Presents(t, "bearer")
           /\ Become(t, Passed(known))
  <2>1. Underway(known) /\ known.pc = s.pc /\ known.input = s.input /\ known.principal = who
    BY <1>8, <1>5
  <2>2. Passed(known) \in State /\ Good(Passed(known))
    BY <1>8, <2>1, AuthenticateGood DEF Presents
  <2> QED
    BY <1>1, <1>8, <2>2, Kept, Becoming
<1>9. CASE s.pc = "bearer" /\ Presents(t, "bearer") /\ Become(t, Passed(known))
  <2>1. Underway(known) /\ known.pc = s.pc /\ known.input = s.input /\ known.principal = who
    BY <1>9, <1>5
  <2>2. Passed(known) \in State /\ Good(Passed(known))
    BY <1>9, <2>1, AdmitGood DEF Presents
  <2> QED
    BY <1>1, <1>9, <2>2, Kept, Becoming
<1>10. CASE s.pc = "token" /\ Presents(t, "pprof") /\ Become(t, Passed(s))
  <2>1. Passed(s) \in State /\ Good(Passed(s))
    BY <1>2, <1>10, AdmitGood DEF Presents
  <2> QED
    BY <1>1, <1>10, <2>1, Kept, Becoming
<1> QED
  BY <1>4, <1>6, <1>7, <1>8, <1>9, <1>10 DEF Authenticate, Bearer, PprofToken

\* Authorization, the handler, and the way out.
LEMMA Ending ==
    ASSUME IInv, NEW t \in Thread,
           Authorize(t) \/ Handle(t) \/ Panic(t) \/ Unwind(t) \/ Leave(t)
    PROVE  IInv'
<1> DEFINE s == request[t]
<1>1. UNCHANGED budget /\ s \in State /\ Good(s)
  BY DEF IInv, TypeOK, GoodState, Authorize, Handle, Panic, Unwind, Leave
<1>2. CASE Authorize(t)
  <2>1. Underway(s) /\ s.pc = "authorize"
    BY <1>2, Serving DEF Stage, Authorize
  <2> QED
    BY <1>1, <1>2, <2>1, Kept, ReplyGood, AuthorizeGood, Becoming DEF Authorize
<1>3. CASE Handle(t)
  <2>1. Underway(s)
    BY <1>3, Serving DEF Stage, Handle
  <2> QED
    BY <1>1, <1>3, <2>1, Kept, ReplyGood, Becoming DEF Handle
<1>4. CASE Panic(t) \/ Unwind(t)
  <2> DEFINE n == [s EXCEPT !.pc = "done", !.answers = 1]
  <2>1. s.pc \in {"handle", "unwind"}
    BY <1>4 DEF Panic, Unwind
  <2>2. ASSUME Panic(t) PROVE Become(t, n)
    <3>1. s.answers = 0
      BY <1>1, <2>2 DEF Panic, Good, Counted
    <3>2. [s EXCEPT !.pc = "done", !.answers = @ + 1] = n
      BY <3>1
    <3> QED
      BY <2>2, <3>2 DEF Panic
  <2>3. ASSUME Unwind(t) PROVE Become(t, n)
    <3>1. s.answers \in {0, 1}
      BY <1>1, <2>3 DEF Unwind, Good, Counted
    <3>2. [s EXCEPT !.pc = "done", !.answers = IF @ = 0 THEN 1 ELSE @] = n
      BY <3>1
    <3> QED
      BY <2>3, <3>2 DEF Unwind
  <2>4. Become(t, n)
    BY <1>4, <2>2, <2>3
  <2> QED
    BY <1>1, <2>1, <2>4, Kept, DoneGood, Becoming
<1>5. CASE Leave(t)
  BY <1>1, <1>5, Kept, IdleGood, Becoming DEF Leave
<1> QED
  BY <1>2, <1>3, <1>4, <1>5

LEMMA IInvStep == IInv /\ [Next]_vars => IInv'
<1> SUFFICES ASSUME IInv, [Next]_vars PROVE IInv'
  OBVIOUS
<1>1. ASSUME NEW t \in Thread, Serve(t) \/ Leave(t) PROVE IInv'
  BY <1>1, Looking, Limiting, Authenticating, Ending DEF Serve
<1>2. ASSUME NEW t \in Thread, NEW i \in Input, Arrive(t, i) PROVE IInv'
  BY <1>2, Kept, NewGood, Becoming DEF Arrive
<1>3. ASSUME NEW b \in Bucket, Refill(b) PROVE IInv'
  <2>1. budget' \in [Bucket -> 0..Burst] /\ request' = request
    BY <1>3 DEF Refill, IInv, TypeOK
  <2> QED
    BY <2>1 DEF IInv, TypeOK
<1>4. CASE UNCHANGED vars
  BY <1>4 DEF vars, IInv, TypeOK
<1> QED
  BY <1>1, <1>2, <1>3, <1>4 DEF Next

LEMMA Invariant == Spec => []IInv
BY Init_IInv, IInvStep, PTL DEF Spec

-----------------------------------------------------------------------------

\* Types; no bucket of the limiter is overdrawn.
THEOREM TypeCorrect == Spec => []TypeOK
<1>1. IInv => TypeOK
  BY DEF IInv
<1> QED
  BY <1>1, Invariant, PTL

\* A request reaches its handler with the credential its route calls for,
\* permitted, and past every limit that applies to it.
THEOREM HandlersGuarded == Spec => []HandlerGuarded
<1>1. ASSUME IInv, NEW t \in Thread, request[t].pc = "handle"
      PROVE  LET s == request[t]
                 r == s.input.route
                 e == s.input.entry
                 c == s.input.credential IN
             /\ e \in Guarded =>
                   /\ r \in PskRoutes => c.scheme = "psk" /\ c.valid
                   /\ r \notin PskRoutes \cup SkipRoutes =>
                         c.scheme = "bearer" /\ c.valid /\ s.principal = c.subject
             /\ e = "swagger" => c.scheme = "bearer" /\ c.valid /\ s.principal = c.subject
             /\ e = "pprof" => c.scheme = "pprof" /\ c.valid
             /\ e \in {"api", "unary"} => s.permitted
             /\ e = "stream" => r \notin Protected
             /\ (e = "api" /\ LimiterEnabled) => Settled(s) = {k \in Limits : LimitKey(s, k) # ""}
  <2> DEFINE s == request[t]
  <2>1. s \in State /\ Good(s) /\ s.input \in Input /\ s.pc = "handle"
    BY <1>1 DEF IInv, GoodState, TypeOK, State
  <2>2. Behind(s.pc) = Limits
    BY <2>1 DEF Behind
  <2>3. (s.input.entry = "api" /\ LimiterEnabled) => Settled(s) = {k \in Limits : LimitKey(s, k) # ""}
    BY <2>1, <2>2 DEF Good, Paid, Stage
  <2>4. s.input.entry = "stream" => s.input.route \notin Protected
    BY <2>1, PipelineAssumption
  <2> QED
    BY <2>1, <2>3, <2>4 DEF Good, Authenticated, Admitted, Permitted
<1>2. IInv => HandlerGuarded
  BY <1>1 DEF HandlerGuarded, Guarded
<1> QED
  BY <1>2, Invariant, PTL

\* The budget of a subject is spent by that subject's permitted requests.
THEOREM SubjectBudgets == Spec => []SubjectBudgetOwn
<1>1. IInv => SubjectBudgetOwn
  BY DEF IInv, GoodState, Good, Own, SubjectBudgetOwn
<1> QED
  BY <1>1, Invariant, PTL

\* Every request is answered exactly once.
THEOREM Answered == Spec => []OneAnswer
<1>1. ASSUME IInv, NEW t \in Thread
      PROVE  request[t].answers <= 1 /\ (request[t].pc = "done" => request[t].answers = 1)
  <2>1. Counted(request[t])
    BY <1>1 DEF IInv, GoodState, Good
  <2> QED
    BY <2>1 DEF Counted
<1>2. IInv => OneAnswer
  BY <1>1 DEF OneAnswer
<1> QED
  BY <1>2, Invariant, PTL-----------------------------------------------------------------------------
(* How long a request may take.                                            *)

\* The place of each stage in its chain, counted from the end.
Ahead(entry) ==
    CASE entry = "api" -> [handle |-> 3, user |-> 4, authorize |-> 5, authenticate |-> 6, api |-> 7, ip |-> 8,
                           route |-> 9, json |-> 10, cors |-> 11, key |-> 12]
      [] entry = "open" -> [handle |-> 3, route |-> 4, json |-> 5, cors |-> 6, key |-> 7]
      [] entry = "pprof" -> [handle |-> 3, token |-> 4, route |-> 5, json |-> 6, cors |-> 7, key |-> 8]
      [] entry = "swagger" -> [handle |-> 3, bearer |-> 4, route |-> 5, json |-> 6, cors |-> 7, key |-> 8]
      [] entry = "unary" -> [handle |-> 3, deduplicate |-> 4, authorize |-> 5, authenticate |-> 6, key |-> 7,
                             route |-> 8]
      [] entry = "stream" -> [handle |-> 3, authenticate |-> 4, key |-> 5, header |-> 6, route |-> 7]

\* The steps a request has left at most until it is gone.
StepsLeft(s) ==
    IF s.pc = "idle" THEN 0
    ELSE IF s.pc = "done" THEN 1
    ELSE IF s.pc = "unwind" THEN 2 ELSE Ahead(s.input.entry)[s.pc]

LEMMA AheadPlaces ==
    ASSUME NEW s \in State, s.pc \in Stages(s.input.entry)
    PROVE  /\ StepsLeft(s) \in 3..12
           /\ s.pc # "handle" => Ahead(s.input.entry)[After(s)] = StepsLeft(s) - 1
           /\ s.pc # "handle" => After(s) \notin {"idle", "unwind", "done"}
<1>1. s.input.entry \in Entry
  <2>1. s.input \in Input
    BY DEF State
  <2> QED
    BY <2>1, PipelineAssumption
<1>2. CASE s.input.entry = "api"
  BY <1>2 DEF After, Chain, ApiChain, Stages, Ahead, StepsLeft
<1>3. CASE s.input.entry = "open"
  BY <1>3 DEF After, Chain, Stages, Ahead, StepsLeft
<1>4. CASE s.input.entry = "pprof"
  BY <1>4 DEF After, Chain, Stages, Ahead, StepsLeft
<1>5. CASE s.input.entry = "swagger"
  BY <1>5 DEF After, Chain, Stages, Ahead, StepsLeft
<1>6. CASE s.input.entry = "unary"
  BY <1>6 DEF After, Chain, Stages, Ahead, StepsLeft
<1>7. CASE s.input.entry = "stream"
  BY <1>7 DEF After, Chain, Stages, Ahead, StepsLeft
<1> QED
  BY <1>1, <1>2, <1>3, <1>4, <1>5, <1>6, <1>7 DEF Entry, Http

\* The names of a request's fields.
Field == {"pc", "input", "subject", "principal", "permitted", "excused", "charged", "answers"}

\* What differs from a request in none of these names stands where it stands.
Twin(m, s) == DOMAIN m = Field /\ m.pc = s.pc /\ m.input = s.input

LEMMA Twins ==
    ASSUME NEW s \in State
    PROVE  /\ Twin(s, s)
           /\ \A c : Twin([s EXCEPT !.charged = @ \cup {c}], s)
           /\ \A l : Twin([s EXCEPT !.excused = @ \cup {l}], s)
           /\ Twin([s EXCEPT !.permitted = TRUE], s)
           /\ \A who, principal : Twin(Identified(s, who, principal), s)
<1>1. DOMAIN s = Field
  BY DEF State, Field
<1>2. Twin(s, s)
  BY <1>1 DEF Twin
<1>3. \A c : Twin([s EXCEPT !.charged = @ \cup {c}], s)
  BY <1>1 DEF Twin, Field
<1>4. \A l : Twin([s EXCEPT !.excused = @ \cup {l}], s)
  BY <1>1 DEF Twin, Field
<1>5. Twin([s EXCEPT !.permitted = TRUE], s)
  BY <1>1 DEF Twin, Field
<1>6. ASSUME NEW who, NEW principal PROVE Twin(Identified(s, who, principal), s)
  <2> DEFINE m == [s EXCEPT !.subject = who]
  <2>1. DOMAIN m = Field /\ m.pc = s.pc /\ m.input = s.input
    BY <1>1 DEF Field
  <2>2. Identified(s, who, principal) = [m EXCEPT !.principal = principal]
    BY DEF Identified
  <2> HIDE DEF m
  <2>3. Twin([m EXCEPT !.principal = principal], s)
    BY <2>1 DEF Twin, Field
  <2> QED
    BY <2>2, <2>3
<1> QED
  BY <1>2, <1>3, <1>4, <1>5, <1>6

\* On, and back.
On(n, s) == n.input = s.input /\ n.pc = After(s)

Back(n, s) == n.input = s.input /\ n.pc = "unwind"

LEMMA OnOrBack ==
    ASSUME NEW s, NEW m, Twin(m, s)
    PROVE  On(Passed(m), s) /\ Back(Replied(m), s)
<1>1. After(m) = After(s)
  BY DEF Twin, After
<1>2. On(Passed(m), s)
  BY <1>1 DEF On, Passed, Twin, Field
<1>3. Back(Replied(m), s)
  <2> DEFINE r == [m EXCEPT !.pc = "unwind"]
  <2>1. DOMAIN r = Field /\ r.pc = "unwind" /\ r.input = s.input
    BY DEF Twin, Field
  <2>2. Replied(m) = [r EXCEPT !.answers = m.answers + 1]
    BY DEF Replied, Twin, Field
  <2> HIDE DEF r
  <2>3. [r EXCEPT !.answers = m.answers + 1].pc = r.pc /\ [r EXCEPT !.answers = m.answers + 1].input = r.input
    BY <2>1 DEF Field
  <2> QED
    BY <2>1, <2>2, <2>3 DEF Back
<1> QED
  BY <1>2, <1>3

\* Where a step sends a request: on, back, or out.
LEMMA ServeSends ==
    ASSUME IInv, NEW t \in Thread, Serve(t)
    PROVE  /\ request[t].pc \notin {"idle", "done"}
           /\ \/ On(request'[t], request[t]) /\ request[t].pc \notin {"handle", "unwind"}
              \/ Back(request'[t], request[t]) /\ request[t].pc # "unwind"
              \/ request'[t].pc = "done"
<1> DEFINE s == request[t]
           n == request'[t]
           Here == s.pc \notin {"idle", "done", "handle", "unwind"}
           Goes == On(n, s) \/ Back(n, s)
<1>1. request \in [Thread -> State] /\ s \in State
  BY DEF IInv, TypeOK
<1>2. ASSUME NEW state, Become(t, state) PROVE n = state
  BY <1>1, <1>2 DEF Become
<1>3. ASSUME NEW m, Twin(m, s), Become(t, Passed(m)) \/ Become(t, Replied(m)) PROVE Goes
  BY <1>2, <1>3, OnOrBack
<1>4. Twin(s, s)
  BY <1>1, Twins
<1>5. ASSUME NEW who, NEW principal, Become(t, Passed(Identified(s, who, principal))) PROVE Goes
  BY <1>1, <1>3, <1>5, Twins
<1>6. CASE IdempotencyKey(t) \/ CORS(t) \/ RequireJSON(t) \/ SendHeader(t)
  BY <1>3, <1>4, <1>6 DEF IdempotencyKey, CORS, RequireJSON, SendHeader, Refuse
<1>7. CASE Route(t)
  <2>1. Back([s EXCEPT !.pc = "unwind"], s)
    BY <1>4 DEF Back, Twin, Field
  <2> QED
    BY <1>2, <1>3, <1>4, <1>7, <2>1 DEF Route
<1>8. CASE Bearer(t) \/ PprofToken(t) \/ Deduplicate(t)
  BY <1>3, <1>4, <1>5, <1>8 DEF Bearer, PprofToken, Deduplicate
<1>9. CASE NoLimit(t)
  BY <1>3, <1>4, <1>9 DEF NoLimit, Limits
<1>10. CASE Allow(t)
  <2>1. Twin([s EXCEPT !.charged = @ \cup {BucketOf(t)}], s)
    BY <1>1, Twins
  <2> QED
    BY <1>3, <1>4, <1>10, <2>1 DEF Allow, Limited, Limits
<1>11. CASE LimiterFails(t)
  <2>1. Twin([s EXCEPT !.excused = @ \cup {s.pc}], s)
    BY <1>1, Twins
  <2> QED
    BY <1>3, <1>4, <1>11, <2>1 DEF LimiterFails, Limited, Limits
<1>12. CASE Authenticate(t)
  BY <1>3, <1>4, <1>5, <1>12 DEF Authenticate
<1>13. CASE Authorize(t)
  <2>1. Twin([s EXCEPT !.permitted = TRUE], s)
    BY <1>1, Twins
  <2> QED
    BY <1>3, <1>4, <1>13, <2>1 DEF Authorize
<1>14. CASE Handle(t)
  BY <1>2, <1>4, <1>14, OnOrBack DEF Handle
<1>15. CASE Panic(t) \/ Unwind(t)
  <2>1. ASSUME NEW k PROVE [s EXCEPT !.pc = "done", !.answers = k].pc = "done"
    BY <1>1 DEF State
  <2>2. s.pc \in {"handle", "unwind"}
    BY <1>15 DEF Panic, Unwind
  <2>3. CASE Panic(t)
    <3>1. n = [s EXCEPT !.pc = "done", !.answers = s.answers + 1]
      BY <1>1, <1>2, <2>3 DEF Panic, State
    <3> QED
      BY <2>1, <2>2, <3>1
  <2>4. CASE Unwind(t)
    <3>1. n = [s EXCEPT !.pc = "done", !.answers = IF s.answers = 0 THEN 1 ELSE s.answers]
      BY <1>1, <1>2, <2>4 DEF Unwind, State
    <3> QED
      BY <2>1, <2>2, <3>1
  <2> QED
    BY <1>15, <2>3, <2>4
<1> QED
  BY <1>6, <1>7, <1>8, <1>9, <1>10, <1>11, <1>12, <1>13, <1>14, <1>15 DEF Serve

\* A request goes through its chain in one direction, past each middleware or
\* interceptor once at most, whatever the other requests do: with every step it
\* comes closer to its answer, and only a new request begins again.
THEOREM ChainAdvances ==
    Spec => [][\A t \in Thread :
                  /\ StepsLeft(request[t]) \in 0..12
                  /\ Serve(t) \/ Leave(t) => StepsLeft(request'[t]) < StepsLeft(request[t])
                  /\ request'[t] # request[t] => Serve(t) \/ Leave(t) \/ \E i \in Input : Arrive(t, i)]_vars
<1> DEFINE Nearing(t) ==
              /\ StepsLeft(request[t]) \in 0..12
              /\ Serve(t) \/ Leave(t) => StepsLeft(request'[t]) < StepsLeft(request[t])
              /\ request'[t] # request[t] => Serve(t) \/ Leave(t) \/ \E i \in Input : Arrive(t, i)
<1>1. ASSUME IInv, [Next]_vars, NEW t \in Thread PROVE Nearing(t)
  <2> DEFINE s == request[t]
             n == request'[t]
  <2>1. s \in State /\ s.pc \in Stages(s.input.entry) \cup {"idle", "unwind", "done"}
    BY <1>1 DEF IInv, GoodState, Good, Placed
  <2>2. s.pc \in Stages(s.input.entry) => StepsLeft(s) \in 3..12
    BY <2>1, AheadPlaces
  <2>3. StepsLeft(s) \in 0..12
    BY <2>1, <2>2 DEF StepsLeft
  <2>4. ASSUME Serve(t) PROVE StepsLeft(n) < StepsLeft(s)
    <3>1. /\ s.pc \notin {"idle", "done"}
          /\ \/ On(n, s) /\ s.pc \notin {"handle", "unwind"}
             \/ Back(n, s) /\ s.pc # "unwind"
             \/ n.pc = "done"
      BY <1>1, <2>4, ServeSends
    <3>2. s.pc # "unwind" => s.pc \in Stages(s.input.entry)
      BY <2>1, <3>1
    <3>3. CASE On(n, s) /\ s.pc \notin {"handle", "unwind"}
      <4>1. /\ StepsLeft(s) \in 3..12 /\ Ahead(s.input.entry)[After(s)] = StepsLeft(s) - 1
            /\ After(s) \notin {"idle", "unwind", "done"}
        BY <2>1, <3>2, <3>3, AheadPlaces
      <4>2. StepsLeft(n) = Ahead(s.input.entry)[After(s)]
        BY <3>3, <4>1 DEF On, StepsLeft
      <4> QED
        BY <4>1, <4>2
    <3>4. CASE Back(n, s) /\ s.pc # "unwind"
      <4>1. n.pc = "unwind" /\ StepsLeft(s) \in 3..12
        BY <2>2, <3>2, <3>4 DEF Back
      <4>2. StepsLeft(n) = 2
        BY <4>1 DEF StepsLeft
      <4> QED
        BY <4>1, <4>2
    <3>5. CASE n.pc = "done"
      BY <2>2, <3>1, <3>2, <3>5 DEF StepsLeft
    <3> QED
      BY <3>1, <3>3, <3>4, <3>5
  <2>5. ASSUME Leave(t) PROVE StepsLeft(n) < StepsLeft(s)
    <3>1. s.pc = "done" /\ n = Idle
      BY <1>1, <2>5 DEF Leave, Become, IInv, TypeOK
    <3>2. Idle.pc = "idle"
      BY DEF Idle, New
    <3> QED
      BY <3>1, <3>2 DEF StepsLeft
  <2>6. n # s => Serve(t) \/ Leave(t) \/ \E i \in Input : Arrive(t, i)
    <3> SUFFICES ASSUME n # s PROVE Serve(t) \/ Leave(t) \/ \E i \in Input : Arrive(t, i)
      OBVIOUS
    <3>1. ASSUME NEW u \in Thread, NEW state, Become(u, state) PROVE u = t
      BY <1>1, <3>1 DEF Become, IInv, TypeOK
    <3>2. ASSUME NEW u \in Thread, Serve(u) PROVE u = t
      BY <3>1, <3>2 DEF Serve, IdempotencyKey, CORS, RequireJSON, SendHeader, Refuse, Route, Bearer, PprofToken,
          NoLimit, Allow, LimiterFails, Authenticate, Authorize, Deduplicate, Handle, Panic, Unwind
    <3>3. ASSUME NEW u \in Thread, Leave(u) \/ \E i \in Input : Arrive(u, i) PROVE u = t
      BY <3>1, <3>3 DEF Leave, Arrive
    <3> QED
      BY <1>1, <3>2, <3>3 DEF Next, Refill, vars
  <2> QED
    BY <2>3, <2>4, <2>5, <2>6
<1>2. IInv /\ [Next]_vars => [\A t \in Thread : Nearing(t)]_vars
  BY <1>1
<1> QED
  BY <1>2, Invariant, PTL DEF Spec

=============================================================================
