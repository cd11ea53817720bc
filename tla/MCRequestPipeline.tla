-------------------------- MODULE MCRequestPipeline --------------------------
(* Instances of RequestPipeline for TLC.                                   *)
EXTENDS RequestPipeline, TLC

CONSTANTS t1, t2

MCThreads == {t1, t2}
MCSymmetry == Permutations(MCThreads)

Credential(scheme, subject, valid) == [scheme |-> scheme, subject |-> subject, valid |-> valid]
Alice == Credential("bearer", "alice", TRUE)

Nobody == Credential("none", "", FALSE)
SharedKey == Credential("psk", "", TRUE)

Ask(entry, flaw, route, credential) ==
    [entry |-> entry, flaw |-> flaw, ip |-> "ip1", route |-> route,
     credential |-> credential]

MCMatched == {"query", "version", "callback", "watch", "ready", "heap", "docs"}

\* A route both with a shared key and skipped, a skipped one, a protected one
\* and none, with the right credential and a wrong one.
MCInputs ==
    {Ask("api", "none", "query", Alice),
     Ask("api", "none", "query", Credential("bearer", "alice", FALSE)),
     Ask("api", "none", "version", Nobody),
     Ask("api", "none", "callback", SharedKey),
     Ask("api", "none", "callback", Alice),
     Ask("api", "none", "nowhere", Alice),
     Ask("api", "json", "query", Alice),
     Ask("api", "cors", "query", Alice),
     Ask("unary", "none", "query", Alice),
     Ask("unary", "none", "query", SharedKey),
     Ask("unary", "none", "callback", Alice),
     Ask("unary", "none", "nowhere", Alice),
     Ask("unary", "key", "query", Alice),
     Ask("stream", "none", "watch", Alice),
     Ask("stream", "header", "watch", Alice),
     Ask("open", "none", "ready", Nobody),
     Ask("pprof", "none", "heap", Alice),
     Ask("pprof", "none", "heap", Credential("pprof", "", TRUE)),
     Ask("swagger", "none", "docs", Alice)}
=============================================================================
