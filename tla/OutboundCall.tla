---------------------------- MODULE OutboundCall ----------------------------
(***************************************************************************)
(* Calls of other services through one outbound client:                    *)
(* HTTPClient.Do of internal/outbound/http.go or the interceptor chain of  *)
(* internal/grpcclient/client.go.  In both the retry loop runs inside the  *)
(* circuit breaker all calls share, so the breaker sees one request per    *)
(* call, however many attempts it takes.                                   *)
(*                                                                         *)
(* The breaker is sony/gobreaker (external).  Whether it asks IsExcluded   *)
(* about a call without error, and whether an excluded trial makes room    *)
(* for the next one, is left open.                                         *)
(***************************************************************************)
EXTENDS Naturals, FiniteSets

CONSTANTS
    Caller,            \* goroutines that use the client
    MaxAttempts,       \* retry.max_attempts, 1..5
    BreakerEnabled,    \* breaker.enabled
    FailureThreshold   \* breaker.failure_threshold

\* validateClientPolicy.
ASSUME PolicyAssumption ==
    /\ MaxAttempts \in 1..5
    /\ BreakerEnabled \in BOOLEAN
    /\ FailureThreshold \in Nat \ {0}

VARIABLES
    kind,     \* of the client: "http" or "grpc"
    breaker,  \* external: state, consecutive failures and trials admitted
    call      \* each caller's call

vars == <<kind, breaker, call>>

\* fresh: the breaker has not changed its state since it admitted the call.
\* bodies: response bodies received and not closed by the client.
NoCall == [pc |-> "idle", retryable |-> FALSE, attempt |-> 0, sent |-> 0, ctx |-> "live",
           fresh |-> FALSE, bodies |-> 0, result |-> "none"]

Init ==
    /\ kind \in {"http", "grpc"}
    /\ breaker = [state |-> "closed", failures |-> 0, trials |-> 0]
    /\ call = [c \in Caller |-> NoCall]

-----------------------------------------------------------------------------
(* The circuit breaker.                                                    *)

\* Mutant: trials are not counted.
AdmitsTrials == ~ BreakerEnabled \/ breaker.state \in {"closed", "halfopen"}

Admits ==
    \/ ~ BreakerEnabled
    \/ breaker.state = "closed"
    \/ breaker.state = "halfopen" /\ breaker.trials = 0

\* Mutant: the caller's cancellation counts against the upstream.
ExcludedNothing(result) ==
    IF kind = "http" THEN FALSE ELSE result \notin {"retryable", "deadline", "cancelled"}

\* IsExcluded.  An error of waitRetry carries no gRPC code ("unknown").
Excluded(result) ==
    IF kind = "http" THEN result = "cancelled"
                     ELSE result \notin {"retryable", "deadline"}

In(state) == [state |-> state, failures |-> 0, trials |-> 0]

\* Mutant: ReadyToTrip compares with > instead of >=.
AfterFailureLate ==
    IF breaker.state = "halfopen" \/ breaker.failures + 1 > FailureThreshold
    THEN In("open")
    ELSE [breaker EXCEPT !.failures = @ + 1]

\* ReadyToTrip: failure_threshold calls in a row have failed.
AfterFailure ==
    IF breaker.state = "halfopen" \/ breaker.failures + 1 >= FailureThreshold
    THEN In("open")
    ELSE [breaker EXCEPT !.failures = @ + 1]

AfterSuccess == IF breaker.state = "halfopen" THEN In("closed") ELSE [breaker EXCEPT !.failures = 0]

\* What the breaker may become when a call it still watches ends.
AfterCall(result) ==
    (IF Excluded(result) THEN {breaker, [breaker EXCEPT !.trials = 0]} ELSE {})
      \cup (CASE result = "success" -> {AfterSuccess}
              [] result # "success" /\ ~ Excluded(result) -> {AfterFailure}
              [] OTHER -> {})

\* The breaker's new state makes the calls it admitted before stale.
Watched(calls) ==
    [c \in Caller |-> [calls[c] EXCEPT !.fresh = @ /\ breaker'.state = breaker.state]]

\* open_timeout has passed.
OpenTimeout ==
    /\ BreakerEnabled /\ breaker.state = "open"
    /\ breaker' = In("halfopen")
    /\ call' = Watched(call)
    /\ UNCHANGED kind

-----------------------------------------------------------------------------
(* A call.                                                                 *)

\* Mutant: every method is retried.
LimitAlways(c) == MaxAttempts

\* retryableMethod, retryGRPCMethod: idempotent by method, by configured
\* pattern or because the context carries an idempotency key.
Limit(c) == IF call[c].retryable THEN MaxAttempts ELSE 1

Begin(c, retryable) ==
    /\ call[c].pc = "idle"
    /\ Admits
    /\ breaker' = IF breaker.state = "halfopen" THEN [breaker EXCEPT !.trials = @ + 1] ELSE breaker
    /\ call' = [call EXCEPT ![c] = [NoCall EXCEPT !.pc = "ready", !.retryable = retryable,
                                                  !.attempt = 1, !.fresh = BreakerEnabled]]
    /\ UNCHANGED kind

\* ErrOpenState or ErrTooManyRequests, the upstream is not asked.
Reject(c) ==
    /\ call[c].pc = "idle"
    /\ ~ Admits
    /\ call' = [call EXCEPT ![c] = [NoCall EXCEPT !.pc = "done", !.result = "rejected"]]
    /\ UNCHANGED <<kind, breaker>>

\* The call returns through the breaker, with the body of a response.
End(c, result) ==
    LET body == IF kind = "http" /\ result \in {"success", "retryable"} THEN 1 ELSE 0 IN
    /\ breaker' \in IF call[c].fresh THEN AfterCall(result) ELSE {breaker}
    /\ call' = Watched([call EXCEPT ![c] = [call[c] EXCEPT !.pc = "done", !.result = result,
                                                           !.bodies = @ + body]])
    /\ UNCHANGED kind

\* doWithRetry refuses a path that is not relative before the first attempt.
BadPath(c) ==
    /\ kind = "http"
    /\ call[c].pc = "ready" /\ call[c].attempt = 1
    /\ End(c, "path")

Send(c) ==
    /\ call[c].pc = "ready"
    /\ call' = [call EXCEPT ![c].pc = "sent", ![c].sent = @ + 1]
    /\ UNCHANGED <<kind, breaker>>

\* How an attempt may end: an answer, an answer that invites a retry (429,
\* 502, 503, 504; Unavailable, ResourceExhausted), another error of the
\* upstream or the connection, or the end of the caller's context.
Answers(c) ==
    {"success", "retryable", IF kind = "http" THEN "transport" ELSE "other"}
      \cup ({call[c].ctx} \ {"live"})

\* The HTTP client retries every error and invitation, gRPC invitations.
Repeats(answer) == IF kind = "http" THEN answer # "success" ELSE answer = "retryable"

\* Mutant: the body of a response that is tried again stays open.
BackOffLeaking(c, answer) ==
    /\ call' = [call EXCEPT ![c].pc = "backoff",
                            ![c].bodies = @ + IF answer = "retryable" THEN 1 ELSE 0]
    /\ UNCHANGED <<kind, breaker>>

\* The body of a response that is tried again is drained and closed.
BackOff(c, answer) ==
    /\ call' = [call EXCEPT ![c].pc = "backoff"]
    /\ UNCHANGED <<kind, breaker>>

Answer(c) ==
    /\ call[c].pc = "sent"
    /\ \E answer \in Answers(c) :
          \/ Repeats(answer) /\ call[c].attempt < Limit(c) /\ BackOff(c, answer)
          \/ ~ (Repeats(answer) /\ call[c].attempt < Limit(c)) /\ End(c, answer)

\* Mutant: only the end of the context wakes a backoff.
BackoffElapsedOnCancel(c) ==
    /\ call[c].pc = "backoff" /\ call[c].ctx # "live"
    /\ call' = [call EXCEPT ![c].pc = "ready", ![c].attempt = @ + 1]
    /\ UNCHANGED <<kind, breaker>>

\* The timer of waitBackoff or waitRetry fires.
BackoffElapsed(c) ==
    /\ call[c].pc = "backoff"
    /\ call' = [call EXCEPT ![c].pc = "ready", ![c].attempt = @ + 1]
    /\ UNCHANGED <<kind, breaker>>

\* waitBackoff or waitRetry returns ctx.Err().
BackoffCancelled(c) ==
    /\ call[c].pc = "backoff"
    /\ call[c].ctx # "live"
    /\ End(c, IF kind = "http" THEN call[c].ctx ELSE "unknown")

\* The caller cancels, or its deadline (or the client's timeout) passes.
ContextDone(c) ==
    /\ call[c].pc \in {"ready", "sent", "backoff"}
    /\ call[c].ctx = "live"
    /\ \E why \in {"deadline", "cancelled"} : call' = [call EXCEPT ![c].ctx = why]
    /\ UNCHANGED <<kind, breaker>>

\* The caller is done with the result, closes the body and may call again.
Return(c) ==
    /\ call[c].pc = "done"
    /\ call' = [call EXCEPT ![c] = NoCall]
    /\ UNCHANGED <<kind, breaker>>

CallStep(c) ==
    BadPath(c) \/ Send(c) \/ Answer(c) \/ BackoffElapsed(c) \/ BackoffCancelled(c)

Next ==
    \/ OpenTimeout
    \/ \E c \in Caller : \/ \E retryable \in BOOLEAN : Begin(c, retryable)
                         \/ Reject(c) \/ CallStep(c) \/ ContextDone(c) \/ Return(c)

\* Timers fire and every attempt ends, by the client's timeout if not before.
Spec == Init /\ [][Next]_vars /\ \A c \in Caller : WF_vars(CallStep(c))

-----------------------------------------------------------------------------
(* Properties.                                                             *)

Results == {"none", "rejected", "path", "success", "retryable", "transport", "other", "deadline",
            "cancelled", "unknown"}

CallType ==
    [pc : {"idle", "ready", "sent", "backoff", "done"}, retryable : BOOLEAN, attempt : 0..MaxAttempts,
     sent : Nat, ctx : {"live", "deadline", "cancelled"}, fresh : BOOLEAN, bodies : Nat, result : Results]

\* Types; a closed breaker has counted fewer failures than open it, and no
\* call makes more attempts than the policy has.
TypeOK ==
    /\ kind \in {"http", "grpc"}
    /\ breaker \in [state : {"closed", "open", "halfopen"},
                    failures : 0..(FailureThreshold - 1), trials : 0..1]
    /\ call \in [Caller -> CallType]

\* Every response body has one owner: the retry loop closes those it tries
\* again, also when the context ends in the backoff; the caller gets the body
\* of the response it is handed, a retryable status the breaker saw as an
\* error included, and none with an error.
BodiesOwned ==
    \A c \in Caller : call[c].bodies =
        IF kind = "http" /\ call[c].pc = "done" /\ call[c].result \in {"success", "retryable"}
        THEN 1 ELSE 0

\* The upstream sees a call that is not idempotent once, and no call more
\* often than the policy says, whatever the order of timeouts, answers and
\* cancellations.
SentWithinPolicy ==
    \A c \in Caller : call[c].sent <= IF call[c].retryable THEN MaxAttempts ELSE 1

\* A breaker on trial lets one call through to the upstream and an open one
\* none, apart from calls that were already on their way.
TrialAlone ==
    LET watched == {c \in Caller : call[c].fresh /\ call[c].pc \in {"ready", "sent", "backoff"}} IN
    /\ breaker.state = "halfopen" => Cardinality(watched) <= 1
    /\ breaker.state = "open" => watched = {}

\* The breaker opens only on a call that ended in an upstream failure, a
\* missed deadline or a refused path, never on one its caller gave up.
OpensOnFailure ==
    [][breaker.state # "open" /\ breaker'.state = "open" =>
          \E c \in Caller : /\ call[c].pc # "done" /\ call'[c].pc = "done"
                            /\ call'[c].result \in {"retryable", "transport", "deadline", "path"}]_vars

\* Every call that begins returns.
EveryCallEnds == \A c \in Caller : call[c].pc = "ready" ~> call[c].pc = "done"
=============================================================================
