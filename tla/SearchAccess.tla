---------------------------- MODULE SearchAccess ----------------------------
(***************************************************************************)
(* One read request (Search, Suggest or GetDocument, over HTTP or gRPC)    *)
(* from the resolution of the caller's visibility tokens                   *)
(* (internal/searchauth/resolver.go) over the application check            *)
(* (internal/search/service.go) to the OpenSearch query                    *)
(* (internal/searchstore/opensearch.go), while role bindings, application  *)
(* grants and indexed documents change under it.  Authorization-service,   *)
(* application-service and OpenSearch are external.                        *)
(***************************************************************************)
EXTENDS SearchDocument, FiniteSets, FiniteSetsExt

CONSTANTS
    PageSize,         \* const pageSize of the resolver (100)
    MaxPages,         \* pages the resolver reads at most (100)
    MaxApplications,  \* const maxApplications (100)
    Binding,          \* bindings a list may hold: [role, active]
    Application,      \* application ids, strings other than ""
    Document,         \* documents the index may hold
    Request,          \* requests callers may make, and the deployment they are made in
    MaxBindings,      \* bound on the length of a binding list
    DefaultSize,      \* for each operation the hits a page has by default,
    MaxSize,          \* and at most (20 and 100; a Suggest's limit 10 and 50)
    Width             \* page numbers and sizes are computed modulo Width (2^32)

ASSUME AccessAssumption ==
    /\ PageSize \in Nat \ {0} /\ MaxPages \in Nat \ {0}
    /\ MaxApplications \in Nat /\ MaxBindings \in Nat
    /\ DefaultSize \in [{"search", "suggest", "get"} -> Nat]
    /\ MaxSize \in [{"search", "suggest", "get"} -> Nat]
    /\ Width \in Nat \ {0}

\* An index is finite; page numbers and sizes are uint32.
ASSUME RequestAssumption ==
    /\ IsFiniteSet(Document)
    /\ \A r \in Request : /\ r.operation \in {"search", "suggest", "get"}
                          /\ r.page \in Nat /\ r.size \in Nat

VARIABLES
    bindings,   \* external: role bindings of the caller's membership, in list order
    grants,     \* external: applications granted to the tenant
    documents,  \* external: documents in the index
    request,    \* the request being served
    pc,         \* where its handler is
    page,       \* next page of bindings to read
    tokens,     \* visibility tokens resolved so far
    result,     \* documents found
    outcome,    \* what the caller is told
    held,       \* history: roles bound and active at some time during the request
    granted,    \* history: applications granted at some time during the request
    quiet       \* history: nothing external has changed during the request

vars == <<bindings, grants, documents, request, pc, page, tokens, result, outcome,
          held, granted, quiet>>

\* A binding that is not active or names no role is skipped.
Effective(binding) == binding.active /\ binding.role # Empty

ActiveRoles(list) == {list[i].role : i \in {j \in DOMAIN list : Effective(list[j])}}

Token(kind, name) == [kind |-> kind, name |-> name, padded |-> FALSE]

\* Authorization-service is configured (always in production).
HasResolver == request.resolver

\* The lists authorization-service may keep; there are none without it.
BindingLists ==
    IF HasResolver THEN UNION {[1..n -> Binding] : n \in 0..MaxBindings} ELSE {<<>>}

Init ==
    /\ request \in Request
    /\ bindings \in BindingLists
    /\ grants \in SUBSET Application
    /\ documents \in SUBSET Document
    /\ pc = "resolve"
    /\ page = 1
    /\ tokens = {}
    /\ result = {}
    /\ outcome = "pending"
    /\ held = ActiveRoles(bindings)
    /\ granted = grants
    /\ quiet = TRUE

Finish(o) == pc' = "done" /\ outcome' = o

GoTo(label) == pc' = label /\ outcome' = outcome

-----------------------------------------------------------------------------
(* VisibilityTokens, and what the transports do without a resolver.        *)

Caller == request.principal

TenantMismatch ==
    Caller.tenantId # Empty /\ Caller.tenantId # request.tenantId

OwnTokens ==
    {Token("user", Caller.id)}
      \cup (IF Caller.membershipId # Empty
            THEN {Token("membership", Caller.membershipId)} ELSE {})

\* Search and Suggest check the requested applications before the query,
\* GetDocument the application of the document it found.
AfterTokens == IF request.operation = "get" THEN "query" ELSE "authorize"

Identify ==
    /\ pc = "resolve" /\ HasResolver
    /\ \/ ~ Caller.present /\ Finish("unavailable") /\ tokens' = tokens
       \/ Caller.present /\ TenantMismatch /\ Finish("forbidden") /\ tokens' = tokens
       \/ /\ Caller.present /\ ~ TenantMismatch
          /\ tokens' = OwnTokens
          /\ GoTo(IF Caller.membershipId = Empty THEN AfterTokens ELSE "list")
    /\ UNCHANGED <<bindings, grants, documents, request, page, result, held, granted, quiet>>

\* callerVisibility (gRPC) takes a principal without an id for none, the HTTP
\* handler does not; without a principal only tenant-wide documents are left.
IdentifyAlone ==
    /\ pc = "resolve" /\ ~ HasResolver
    /\ LET known == Caller.present /\ (request.transport = "grpc" => Caller.id # Empty) IN
       \/ ~ known /\ GoTo(AfterTokens) /\ tokens' = {}
       \/ known /\ TenantMismatch /\ Finish("forbidden") /\ tokens' = tokens
       \/ known /\ ~ TenantMismatch /\ GoTo(AfterTokens) /\ tokens' = OwnTokens
    /\ UNCHANGED <<bindings, grants, documents, request, page, result, held, granted, quiet>>

\* The bindings a ListBindings call returns for a page.
OnPage(p) == {i \in DOMAIN bindings : (p - 1) * PageSize < i /\ i <= p * PageSize}

\* The answer's total ends the loop, or a page without bindings.
\* Authorization-service is taken to send a page result with every answer: the
\* code would take one without for the last page, however full it is.
LastPage(p) == p * PageSize >= Len(bindings) \/ OnPage(p) = {}

\* Mutants: the page limit is off by one; a list beyond the limit is cut
\* short; the page number is not advanced.
ListBindingsBeyond ==
    /\ pc = "list"
    /\ tokens' = tokens \cup {Token("role", bindings[i].role) :
                                i \in {j \in OnPage(page) : Effective(bindings[j])}}
    /\ \/ LastPage(page) /\ GoTo(AfterTokens) /\ page' = page
       \/ ~ LastPage(page) /\ page <= MaxPages /\ GoTo("list") /\ page' = page + 1
    /\ UNCHANGED <<bindings, grants, documents, request, result, held, granted, quiet>>

ListBindingsCut ==
    /\ pc = "list"
    /\ tokens' = tokens \cup {Token("role", bindings[i].role) :
                                i \in {j \in OnPage(page) : Effective(bindings[j])}}
    /\ \/ (LastPage(page) \/ page = MaxPages) /\ GoTo(AfterTokens) /\ page' = page
       \/ ~ LastPage(page) /\ page < MaxPages /\ GoTo("list") /\ page' = page + 1
    /\ UNCHANGED <<bindings, grants, documents, request, result, held, granted, quiet>>

ListBindingsStuck ==
    /\ pc = "list"
    /\ tokens' = tokens \cup {Token("role", bindings[i].role) :
                                i \in {j \in OnPage(page) : Effective(bindings[j])}}
    /\ GoTo(IF LastPage(page) THEN AfterTokens ELSE "list")
    /\ UNCHANGED <<bindings, grants, documents, request, page, result, held, granted, quiet>>

ListBindings ==
    /\ pc = "list"
    /\ tokens' = tokens \cup {Token("role", bindings[i].role) :
                                i \in {j \in OnPage(page) : Effective(bindings[j])}}
    /\ \/ LastPage(page) /\ GoTo(AfterTokens) /\ page' = page
       \/ ~ LastPage(page) /\ page < MaxPages /\ GoTo("list") /\ page' = page + 1
       \/ ~ LastPage(page) /\ page = MaxPages /\ Finish("unavailable") /\ page' = page
    /\ UNCHANGED <<bindings, grants, documents, request, result, held, granted, quiet>>

-----------------------------------------------------------------------------
(* Service.Search, Suggest and Get.                                        *)

\* The ids authorizeApplications verifies: trimmed, each once.
Requested == {request.applicationIds[i].text : i \in DOMAIN request.applicationIds}

WellFormed ==
    /\ request.tenantId # Empty
    /\ request.operation = "suggest" => ~ request.blankPrefix
    /\ Len(request.applicationIds) <= MaxApplications
    /\ "" \notin Requested

\* Mutant: the answer of application-service is ignored.
AuthorizeBlindly ==
    /\ pc = "authorize"
    /\ \/ ~ WellFormed /\ Finish("invalid")
       \/ WellFormed /\ GoTo("query")
    /\ UNCHANGED <<bindings, grants, documents, request, page, tokens, result, held, granted, quiet>>

Authorize ==
    /\ pc = "authorize"
    /\ \/ ~ WellFormed /\ Finish("invalid")
       \/ WellFormed /\ Requested \subseteq grants /\ GoTo("query")
       \/ WellFormed /\ ~ Requested \subseteq grants /\ Finish("forbidden")
    /\ UNCHANGED <<bindings, grants, documents, request, page, tokens, result, held, granted, quiet>>

\* normalizeVisibility: the tenant-wide token first, blanks dropped.
Visibility == {Broad(request.tenantId)} \cup {TrimSpace(t) : t \in tokens}

\* The switch of allowedFilter; "attributes" stands for the fields under it.
AllowedFilter(field) ==
    field \in {"id", "sourceService", "documentType", "applicationId", "permissionCode",
               "attributes"}

\* Mutant: the query does not filter on the tenant.
MatchesAnyTenant(d) ==
    /\ d.visibilityTokens \cap Visibility # {}
    /\ request.documentTypes # {} => d.documentType \in request.documentTypes
    /\ Requested # {} => d.applicationId \in Requested
    /\ \A field \in DOMAIN request.filters :
          AllowedFilter(field) /\ request.filters[field] # {} =>
              d[field] \in request.filters[field]

\* The bool filter of buildSearchQuery.  Filters of GetDocument name the id.
Matches(d) ==
    /\ d.tenantId = request.tenantId
    /\ d.visibilityTokens \cap Visibility # {}
    /\ request.documentTypes # {} => d.documentType \in request.documentTypes
    /\ Requested # {} => d.applicationId \in Requested
    /\ \A field \in DOMAIN request.filters :
          AllowedFilter(field) /\ request.filters[field] # {} =>
              d[field] \in request.filters[field]

\* normalizePage, and the limit of a Suggest.
Page == IF request.page = 0 THEN 1 ELSE request.page

Size ==
    LET wanted == IF request.size = 0 THEN DefaultSize[request.operation] ELSE request.size
    IN  Min({wanted, MaxSize[request.operation]})

\* Mutant: pages count from 0.
OffsetFromZero == (Page * Size) % Width

Offset == ((Page - 1) * Size) % Width

\* Of n hits in OpenSearch's order, those from Offset on that fill a page.
Shown(n) == IF n <= Offset THEN 0 ELSE Min({n - Offset, Size})

Query ==
    /\ pc = "query"
    /\ request.operation # "get"
    /\ LET hits == {d \in documents : Matches(d)}
       IN  \E onPage \in kSubset(Shown(Cardinality(hits)), hits) : result' = onPage
    /\ Finish("ok")
    /\ UNCHANGED <<bindings, grants, documents, request, page, tokens, held, granted, quiet>>

\* Get wants a tenant and an id.
Malformed == request.tenantId = Empty \/ "" \in request.filters["id"]

QueryOne ==
    /\ pc = "query"
    /\ request.operation = "get"
    /\ \/ Malformed /\ Finish("invalid") /\ result' = {}
       \/ /\ ~ Malformed
          /\ ~ \E d \in documents : Matches(d)
          /\ Finish("notfound") /\ result' = {}
       \/ /\ ~ Malformed
          /\ \E d \in documents :
                /\ Matches(d)
                /\ result' = {d}
                /\ IF d.applicationId = "" THEN Finish("ok") ELSE GoTo("recheck")
    /\ UNCHANGED <<bindings, grants, documents, request, page, tokens, held, granted, quiet>>

\* Mutant: the document is returned along with the refusal.
RecheckKeeping ==
    /\ pc = "recheck"
    /\ Finish(IF \A d \in result : d.applicationId \in grants THEN "ok" ELSE "forbidden")
    /\ UNCHANGED <<bindings, grants, documents, request, page, tokens, result, held, granted, quiet>>

\* Get verifies the application the document is recorded under.
Recheck ==
    /\ pc = "recheck"
    /\ \A d \in result :
          \/ d.applicationId \in grants /\ Finish("ok") /\ result' = result
          \/ d.applicationId \notin grants /\ Finish("forbidden") /\ result' = {}
    /\ UNCHANGED <<bindings, grants, documents, request, page, tokens, held, granted, quiet>>

\* A call to authorization-service, application-service or OpenSearch fails.
\* Authorize makes no call when no application is requested.  "unavailable"
\* stands for whichever error the caller gets: a 404 of the index becomes
\* not-found and an answer that cannot be decoded an internal error.
DependencyFails ==
    /\ pc \in {"list", "authorize", "query", "recheck"}
    /\ pc = "authorize" => WellFormed /\ Requested # {}
    /\ pc = "query" /\ request.operation = "get" => ~ Malformed
    /\ Finish("unavailable")
    /\ result' = {}
    /\ UNCHANGED <<bindings, grants, documents, request, page, tokens, held, granted, quiet>>

-----------------------------------------------------------------------------
(* The world changes under a request that is being served.                 *)

Removed(list, i) == [j \in 1..(Len(list) - 1) |-> IF j < i THEN list[j] ELSE list[j + 1]]

ChangeBindings ==
    /\ pc # "done"
    /\ HasResolver
    /\ \/ \E i \in DOMAIN bindings : bindings' = Removed(bindings, i)
       \/ \E b \in Binding : Len(bindings) < MaxBindings /\ bindings' = Append(bindings, b)
    /\ held' = held \cup ActiveRoles(bindings')
    /\ quiet' = FALSE
    /\ UNCHANGED <<grants, documents, request, pc, page, tokens, result, outcome, granted>>

ChangeGrant ==
    /\ pc # "done"
    /\ \E a \in Application : grants' = (grants \cup {a}) \ (grants \cap {a})
    /\ granted' = granted \cup grants'
    /\ quiet' = FALSE
    /\ UNCHANGED <<bindings, documents, request, pc, page, tokens, result, outcome, held>>

\* The projection replaces, adds or removes a document.
ChangeDocument ==
    /\ pc # "done"
    /\ \E d \in Document : documents' = (documents \cup {d}) \ (documents \cap {d})
    /\ quiet' = FALSE
    /\ UNCHANGED <<bindings, grants, request, pc, page, tokens, result, outcome, held, granted>>

-----------------------------------------------------------------------------

Proceed == Identify \/ IdentifyAlone \/ ListBindings \/ Authorize \/ Query \/ QueryOne \/ Recheck

Serve == Proceed \/ DependencyFails

World == ChangeBindings \/ ChangeGrant \/ ChangeDocument

Next == Serve \/ World

\* The handler goroutine runs and need not fail; the world may change or not.
Spec == Init /\ [][Next]_vars /\ WF_vars(Proceed)

-----------------------------------------------------------------------------
(* Properties.                                                             *)

\* Types; the resolver never reads past its last page (VisibilityTokens).
TypeOK ==
    /\ bindings \in BindingLists
    /\ grants \subseteq Application
    /\ documents \subseteq Document
    /\ request \in Request
    /\ pc \in {"resolve", "list", "authorize", "query", "recheck", "done"}
    /\ page \in 1..MaxPages
    /\ result \subseteq Document
    /\ outcome \in {"pending", "ok", "invalid", "forbidden", "notfound", "unavailable"}
    /\ pc = "done" <=> outcome # "pending"

\* A token is addressed to the caller: it names the user, the membership or a
\* role from a set, or the caller's whole tenant.
AddressedTo(token, roles) ==
    \/ token = Broad(request.tenantId)
    \/ Caller.present /\ \/ token = Token("user", Caller.id)
                         \/ Caller.membershipId # Empty /\ token = Token("membership", Caller.membershipId)
                         \/ \E r \in roles : token = Token("role", r)

\* A document may be shown: it is of the tenant asked for, which is the
\* caller's, and addressed to the caller by a role held during the request.
MayShow(d) ==
    /\ d.tenantId = request.tenantId
    /\ Caller.present /\ Caller.tenantId # Empty /\ (HasResolver \/ Caller.id # Empty) =>
          Caller.tenantId = request.tenantId
    /\ \E t \in d.visibilityTokens : AddressedTo(t, held)

\* Whatever changes between the pages of bindings, between tokens and query:
\* a document is returned only inside the requested tenant, to a caller of
\* that tenant, on the strength of a role held during the request.
ReturnedVisible == outcome = "ok" => \A d \in result : MayShow(d)

\* Bindings read page by page are complete when they did not change, and a
\* list longer than the safety limit is an error, never a shortened answer.
RolesComplete ==
    /\ quiet /\ HasResolver /\ outcome \notin {"unavailable", "forbidden"}
    /\ pc \notin {"resolve", "list"} /\ Caller.membershipId # Empty
    => {t.name : t \in {x \in tokens : x.kind = "role"}} = ActiveRoles(bindings)

\* Every application named by a Search or Suggest was granted during the
\* request and bounds what is returned; GetDocument returns a document of an
\* application only under a grant of that application.
GrantChecked ==
    outcome = "ok" =>
        /\ request.operation # "get" =>
              /\ Requested \subseteq granted
              /\ Requested # {} => \A d \in result : d.applicationId \in Requested
        /\ request.operation = "get" =>
              \A d \in result : d.applicationId = "" \/ d.applicationId \in granted

\* In a quiet world the pages of a Search without filters show the caller all
\* documents of the tenant that carry a token addressed to him, as many on
\* each page as the ones before have left, up to the page whose offset no
\* longer fits (normalizeVisibility, normalizePage, buildSearchQuery).
HolderSees ==
    /\ quiet /\ outcome = "ok" /\ request.operation = "search" /\ HasResolver
    /\ Requested = {} /\ request.documentTypes = {} /\ DOMAIN request.filters = {}
    /\ (Page - 1) * Size < Width
    => LET own    == {d \in documents :
                        /\ d.tenantId = request.tenantId
                        /\ \E t \in d.visibilityTokens :
                              AddressedTo(t, IF Caller.membershipId = Empty THEN {} ELSE ActiveRoles(bindings))}
           before == Min({(Page - 1) * Size, Cardinality(own)})
       IN  /\ result \subseteq own
           /\ Cardinality(result) = Min({Size, Cardinality(own) - before})

\* A read keeps the promise of ReadPromise: its answer comes from one state of
\* the index, is cleared by the applications it calls for, and a refusal shows
\* nothing (Service.Search, Suggest and Get).
Single == request.operation = "get"
Asked == IF Single THEN {} ELSE Requested
Showable == {d \in documents : MayShow(d)}

Promise == INSTANCE ReadPromise
               WITH single <- Single, asked <- Asked, showable <- Showable,
                    allowed <- granted, found <- result, answer <- outcome

ImplementsPromise == Promise!Init /\ [][Promise!Next]_(Promise!vars)

\* Every request is answered, however the binding list grows meanwhile.
Answered == <>(pc = "done")

\* README, security model: "Supported tokens are `tenant:<id>:*`, `user:<id>`,
\* `membership:<id>`, `role:<id>` and `service-account:<id>`": a document
\* addressed to a service account is found by that service account.
ServiceAccountSees ==
    /\ quiet /\ outcome = "ok" /\ request.operation = "search"
    /\ Requested = {} /\ request.documentTypes = {} /\ DOMAIN request.filters = {}
    /\ Caller.present /\ Caller.type = "service-account"
    => \A d \in documents :
          /\ d.tenantId = request.tenantId
          /\ Token("service-account", Caller.id) \in d.visibilityTokens
          => d \in result
=============================================================================
