--------------------------- MODULE MCSearchAccess ---------------------------
(* Instances of SearchAccess for TLC.                                      *)
EXTENDS SearchAccess

t1 == <<"t1">>
t2 == <<"t2">>

MCBindings ==
    {[role |-> <<"r2">>, active |-> TRUE], [role |-> <<"r2">>, active |-> FALSE],
     [role |-> Empty, active |-> TRUE]}

Person == [present |-> TRUE, type |-> "user", id |-> <<"u1">>, tenantId |-> t1,
           membershipId |-> <<"m1">>]

MCPrincipals ==
    {Person,
     [Person EXCEPT !.membershipId = Empty],
     [Person EXCEPT !.tenantId = t2],
     [Person EXCEPT !.tenantId = Empty],
     [Person EXCEPT !.id = Empty, !.tenantId = t2],
     [Person EXCEPT !.present = FALSE]}

\* tenant t1 throughout: the callers' tenants vary
Ask(operation, principal, applicationIds, filters) ==
    [operation |-> operation, transport |-> "grpc", resolver |-> TRUE, principal |-> principal,
     tenantId |-> t1, blankPrefix |-> FALSE, applicationIds |-> applicationIds, documentTypes |-> {},
     filters |-> filters, page |-> 0, size |-> 0]

NoFilters == [f \in {} |-> {}]
App(text) == <<[text |-> text, padded |-> TRUE]>>

\* Get passes the document id as its only filter.
ById(id) == [f \in {"id"} |-> {id}]

MCDoc(id, tenantId, applicationId, visibilityTokens) ==
    [id |-> id, tenantId |-> tenantId, applicationId |-> applicationId,
     documentType |-> "note", visibilityTokens |-> visibilityTokens]

MCDocuments ==
    {MCDoc("d1", t1, "a1", {Token("role", <<"r2">>), [Token("user", <<"u1">>) EXCEPT !.padded = TRUE]}),
     MCDoc("d2", t1, "", {Token("user", <<"u2">>), Broad(t1)}),
     MCDoc("d3", t2, "a1", {Token("user", <<"u1">>)})}

MCRequests ==
    {Ask("search", p, <<>>, NoFilters) : p \in MCPrincipals}
      \cup {Ask("search", Person, App("a1"), NoFilters),
            Ask("suggest", Person, App(""), NoFilters),
            Ask("search", Person, App("a1") \o App("a1") \o App("a1"), NoFilters),
            Ask("search", Person, App("a1") \o App("a1"), [f \in {"tenantId", "id"} |-> {"d3", "d1"}]),
            [Ask("search", Person, <<>>, NoFilters) EXCEPT !.documentTypes = {"task"}],
            [Ask("search", Person, <<>>, NoFilters) EXCEPT !.page = 2, !.size = 1],
            [Ask("search", Person, <<>>, NoFilters) EXCEPT !.page = 3, !.size = 5],
            [Ask("suggest", Person, <<>>, NoFilters) EXCEPT !.size = 1],
            Ask("get", Person, <<>>, ById("d1")),
            Ask("get", Person, <<>>, ById("")),
            [Ask("get", Person, <<>>, ById("d3")) EXCEPT !.tenantId = t2],
            [Ask("suggest", Person, <<>>, NoFilters) EXCEPT !.blankPrefix = TRUE],
            [Ask("get", Person, <<>>, ById("d2")) EXCEPT !.tenantId = Empty,
                                                      !.principal.tenantId = Empty]}

\* Without a resolver both transports derive tokens on their own.
MCAloneRequests ==
    {[Ask(o, p, <<>>, IF o = "get" THEN ById("d2") ELSE NoFilters)
        EXCEPT !.transport = t, !.resolver = FALSE] :
        o \in {"search", "get"}, p \in MCPrincipals, t \in {"http", "grpc"}}

MCDefaultSize == [search |-> 2, suggest |-> 2, get |-> 1]
MCMaxSize == [search |-> 2, suggest |-> 3, get |-> 1]

MCAllRequests == MCRequests \cup MCAloneRequests

Robot == [present |-> TRUE, type |-> "service-account", id |-> <<"s1">>, tenantId |-> t1,
          membershipId |-> Empty]
MCRobotRequests == {Ask("search", Robot, <<>>, NoFilters)}
MCRobotDocuments == {MCDoc("d4", t1, "", {Token("service-account", <<"s1">>)})}
=============================================================================
