------------------------------ MODULE Readiness ------------------------------
(***************************************************************************)
(* Service.Ready of internal/health/service.go: a goroutine per dependency *)
(* probes it under a timeout of its own and sends a result over a buffered *)
(* channel; the caller collects as many results as there are goroutines.   *)
(* The dependencies (external) change, and hang, while the probes run.     *)
(* Calls share nothing, so one caller that calls again and again is enough.*)
(***************************************************************************)
EXTENDS Integers, Sequences, FiniteSets

CONSTANTS
    Dependency,  \* what is probed
    Configured   \* the dependencies whose client is not nil

ASSUME ReadinessAssumption ==
    /\ IsFiniteSet(Dependency)
    /\ Configured \subseteq Dependency

VARIABLES
    health,   \* external: the state of each dependency
    probe,    \* each goroutine: "none", "running" or "sent"
    results,  \* the channel
    call,     \* Ready: [pc, left, report, ready]
    wasUp     \* history: dependencies that were up at some time of the call

vars == <<health, probe, results, call, wasUp>>

Health == {"up", "down", "hung"}

UpNow == {d \in Dependency : health[d] = "up"}

NoCall == [pc |-> "idle", left |-> 0, report |-> [d \in Dependency |-> "none"], ready |-> TRUE]

Init ==
    /\ health \in [Dependency -> Health]
    /\ probe = [d \in Dependency |-> "none"]
    /\ results = <<>>
    /\ call = NoCall
    /\ wasUp = {}

\* Ready, up to its loop.
Call ==
    /\ call.pc = "idle"
    /\ call' = [NoCall EXCEPT !.pc = "collect", !.left = Cardinality(Dependency)]
    /\ probe' = [d \in Dependency |-> "running"]
    /\ wasUp' = UpNow
    /\ UNCHANGED <<health, results>>

\* results <- result{...}
Send(d, status) ==
    /\ probe[d] = "running"
    /\ probe' = [probe EXCEPT ![d] = "sent"]
    /\ results' = Append(results, [name |-> d, status |-> status, ready |-> status # "down"])
    /\ UNCHANGED <<health, call, wasUp>>

Disabled(d) == d \notin Configured /\ Send(d, "disabled")

\* Ping returns; checkResult looks at its error.
Ping(d) ==
    /\ d \in Configured /\ health[d] # "hung"
    /\ Send(d, health[d])

\* Mutant: Ping is not given the context with the timeout.
PingTimesOutNever(d) ==
    /\ d \in Configured /\ health[d] # "hung"
    /\ Send(d, "down")

\* The deadline of the probe, or of the caller's context, passes first.  The
\* Redis client does not look at the deadline while it waits for an answer: a
\* ping that hangs ends by its own read timeout and attempts, with an error too.
PingTimesOut(d) ==
    /\ d \in Configured
    /\ Send(d, "down")

\* Mutants: the last result decides; the first failure ends the loop.
CollectLast ==
    /\ call.pc = "collect" /\ call.left > 0 /\ results # <<>>
    /\ LET item == Head(results) IN
       call' = [call EXCEPT !.left = @ - 1, !.report[item.name] = item.status, !.ready = item.ready]
    /\ results' = Tail(results)
    /\ UNCHANGED <<health, probe, wasUp>>

CollectUntilDown ==
    /\ call.pc = "collect" /\ call.left > 0 /\ results # <<>>
    /\ LET item == Head(results) IN
       call' = [call EXCEPT !.left = IF item.ready THEN @ - 1 ELSE 0,
                            !.report[item.name] = item.status,
                            !.ready = call.ready /\ item.ready]
    /\ results' = Tail(results)
    /\ UNCHANGED <<health, probe, wasUp>>

\* One turn of the loop.
Collect ==
    /\ call.pc = "collect" /\ call.left > 0 /\ results # <<>>
    /\ LET item == Head(results) IN
       call' = [call EXCEPT !.left = @ - 1, !.report[item.name] = item.status,
                            !.ready = call.ready /\ item.ready]
    /\ results' = Tail(results)
    /\ UNCHANGED <<health, probe, wasUp>>

\* The answer: 200 and SERVING, or 503 and NOT_SERVING.
Return ==
    /\ call.pc = "collect" /\ call.left = 0
    /\ call' = [call EXCEPT !.pc = "answered"]
    /\ UNCHANGED <<health, probe, results, wasUp>>

\* The caller is gone; the next one starts from nothing.
Forget ==
    /\ call.pc = "answered"
    /\ call' = NoCall
    /\ probe' = [d \in Dependency |-> "none"]
    /\ results' = <<>>
    /\ wasUp' = {}
    /\ UNCHANGED health

Change(d, state) ==
    /\ health[d] # state
    /\ health' = [health EXCEPT ![d] = state]
    /\ wasUp' = IF call.pc = "collect" /\ state = "up" THEN wasUp \cup {d} ELSE wasUp
    /\ UNCHANGED <<probe, results, call>>

-----------------------------------------------------------------------------

Probe(d) == Disabled(d) \/ Ping(d) \/ PingTimesOut(d)

Ready == Call \/ Collect \/ Return

Next ==
    \/ Ready \/ Forget
    \/ \E d \in Dependency : Probe(d) \/ \E state \in Health : Change(d, state)

\* Goroutines run, and timers fire; dependencies owe nothing.
Fairness ==
    /\ WF_vars(Collect) /\ WF_vars(Return)
    /\ \A d \in Dependency : WF_vars(Disabled(d)) /\ WF_vars(PingTimesOut(d))

Spec == Init /\ [][Next]_vars /\ Fairness

-----------------------------------------------------------------------------
(* Properties.                                                             *)

\* An answer "ready" means that every configured dependency was up at some
\* time of the call, in whatever order the probes finish; an answer "not
\* ready" names a dependency that is down, and every dependency is reported.
VerdictTruthful ==
    call.pc = "answered" =>
        /\ call.ready => Configured \subseteq wasUp
        /\ ~ call.ready => \E d \in Configured : call.report[d] = "down"
        /\ \A d \in Dependency : call.report[d] # "none"

\* No probe outlives the call it was started for, and no result is left in
\* the channel: calls that fail do not leave goroutines behind.
NothingLeft == call.pc = "answered" => results = <<>> /\ \A d \in Dependency : probe[d] = "sent"

\* A call is answered although dependencies hang.
Answered == call.pc = "collect" ~> call.pc = "answered"
=============================================================================
