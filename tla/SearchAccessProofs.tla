-------------------------- MODULE SearchAccessProofs --------------------------
(***************************************************************************)
(* Proofs about SearchAccess, for any bindings, grants, documents,         *)
(* requests and page sizes, and whatever changes during the request.  The  *)
(* argument: every token resolved so far is addressed to the caller by a   *)
(* role held during the request, and whatever reaches the query belongs to *)
(* the caller's tenant and asks for granted applications only.  While      *)
(* nothing changes, the pages of bindings read so far are complete.        *)
(***************************************************************************)
EXTENDS SearchAccess, FiniteSetTheorems, TLAPS

USE AccessAssumption

\* The history remembers what the world shows.
Remembered == ActiveRoles(bindings) \subseteq held /\ grants \subseteq granted

RightTenant ==
    Caller.present /\ Caller.tenantId # Empty /\ (HasResolver \/ Caller.id # Empty) =>
        Caller.tenantId = request.tenantId

\* Tokens are trimmed and addressed to the caller.
Addressed == \A t \in tokens : TrimSpace(t) = t /\ AddressedTo(t, held)

\* What is known at each stage.
Staged ==
    /\ pc \in {"list", "authorize", "query", "recheck"} => RightTenant
    /\ pc = "list" => HasResolver /\ Caller.present /\ Caller.membershipId # Empty
    /\ pc = "authorize" => request.operation # "get"
    /\ pc = "query" /\ request.operation # "get" => Requested \subseteq granted
    /\ pc \in {"resolve", "list", "authorize", "query"} => result = {}
    /\ pc = "recheck" => request.operation = "get" /\ \E d : result = {d}

\* What the query has found.
Found ==
    \A d \in result :
        /\ d.tenantId = request.tenantId /\ RightTenant
        /\ \E t \in d.visibilityTokens : AddressedTo(t, held)

IInv == TypeOK /\ Remembered /\ Addressed /\ Staged /\ Found /\ GrantChecked

\* The lists authorization-service may keep.
List == UNION {[1..n -> Binding] : n \in 0..MaxBindings}

-----------------------------------------------------------------------------
(* Types.                                                                  *)

LEMMA Removing ==
    ASSUME NEW list \in List, NEW i \in DOMAIN list
    PROVE  Removed(list, i) \in List
<1>1. PICK n \in 0..MaxBindings : list \in [1..n -> Binding]
  BY DEF List
<1>2. Len(list) = n /\ n \in Nat
  BY <1>1
<1>3. Removed(list, i) \in [1..(n - 1) -> Binding] /\ n - 1 \in 0..MaxBindings
  BY <1>1, <1>2 DEF Removed
<1> QED
  BY <1>3 DEF List

LEMMA Adding ==
    ASSUME NEW list \in List, NEW b \in Binding,
           Len(list) < MaxBindings
    PROVE  Append(list, b) \in List
<1>1. PICK n \in 0..MaxBindings : list \in [1..n -> Binding]
  BY DEF List
<1>2. list \in Seq(Binding) /\ Len(list) = n /\ n \in Nat
  BY <1>1
<1> DEFINE longer == Append(list, b)
<1>3. longer \in Seq(Binding)
  BY <1>2
<1>4. Len(longer) = n + 1
  BY <1>2
<1> HIDE DEF longer
<1>5. longer \in [1..(n + 1) -> Binding]
  BY <1>3, <1>4
<1> QED
  BY <1>1, <1>2, <1>5 DEF longer, List

LEMMA TypeStep ==
    ASSUME TypeOK, [Next]_vars, pc = "recheck" => \E d : result = {d}
    PROVE  TypeOK'
<1> USE DEF TypeOK, GoTo, Finish
<1>1. AfterTokens \in {"query", "authorize"}
  BY DEF AfterTokens
<1>2. CASE Identify \/ IdentifyAlone
  BY <1>1, <1>2 DEF Identify, IdentifyAlone, BindingLists, HasResolver
<1>3. CASE ListBindings
  BY <1>1, <1>3 DEF ListBindings, BindingLists, HasResolver
<1>4. CASE Authorize
  BY <1>4 DEF Authorize, BindingLists, HasResolver
<1>5. CASE Query
  <2>1. result' \subseteq Document
    BY <1>5 DEF Query, kSubset
  <2> QED
    BY <1>5, <2>1 DEF Query, BindingLists, HasResolver
<1>11. CASE QueryOne
  <2>1. result' \subseteq Document
    BY <1>11 DEF QueryOne
  <2>2. pc' \in {"recheck", "done"} /\ (pc' = "done" <=> outcome' # "pending")
        /\ outcome' \in {"pending", "ok", "invalid", "notfound"}
    BY <1>11 DEF QueryOne
  <2> QED
    BY <1>11, <2>1, <2>2 DEF QueryOne, BindingLists, HasResolver
<1>6. CASE Recheck
  <2>1. PICK d : result = {d}
    BY <1>6 DEF Recheck
  <2> QED
    BY <1>6, <2>1 DEF Recheck, BindingLists, HasResolver
<1>7. CASE DependencyFails
  BY <1>7 DEF DependencyFails, BindingLists, HasResolver
<1>8. CASE ChangeBindings
  <2>1. HasResolver /\ bindings \in List
    BY <1>8 DEF ChangeBindings, BindingLists, List
  <2>2. bindings' \in List
    <3>1. ASSUME NEW i \in DOMAIN bindings, bindings' = Removed(bindings, i) PROVE bindings' \in List
      BY <2>1, <3>1, Removing
    <3>2. ASSUME NEW b \in Binding, Len(bindings) < MaxBindings, bindings' = Append(bindings, b)
          PROVE  bindings' \in List
      BY <2>1, <3>2, Adding
    <3> QED
      BY <1>8, <3>1, <3>2 DEF ChangeBindings
  <2> QED
    BY <1>8, <2>1, <2>2 DEF ChangeBindings, BindingLists, HasResolver, List
<1>9. CASE ChangeGrant \/ ChangeDocument
  BY <1>9 DEF ChangeGrant, ChangeDocument, BindingLists, HasResolver
<1>10. CASE UNCHANGED vars
  BY <1>10 DEF vars, BindingLists, HasResolver
<1> QED
  BY <1>2, <1>3, <1>4, <1>5, <1>6, <1>7, <1>8, <1>9, <1>10, <1>11 DEF Next, Serve, Proceed, World

-----------------------------------------------------------------------------
(* Who is addressed, and what is remembered.                               *)

LEMMA Init_IInv == Init => IInv
<1> SUFFICES ASSUME Init PROVE IInv
  OBVIOUS
<1>1. TypeOK
  BY DEF Init, TypeOK
<1>2. Remembered /\ Addressed /\ Staged /\ Found /\ GrantChecked
  BY DEF Init, Remembered, Addressed, Staged, Found, GrantChecked
<1> QED
  BY <1>1, <1>2 DEF IInv

\* Whoever is addressed stays addressed when more is remembered.
LEMMA AddressedLonger ==
    ASSUME NEW t, NEW roles, NEW more, roles \subseteq more, AddressedTo(t, roles)
    PROVE  AddressedTo(t, more)
BY DEF AddressedTo

LEMMA TokenTrimmed ==
    ASSUME NEW kind, NEW name
    PROVE  TrimSpace(Token(kind, name)) = Token(kind, name)
<1> DEFINE t == Token(kind, name)
<1>1. t \in [kind : {kind}, name : {name}, padded : BOOLEAN]
  BY DEF Token
<1>2. t.padded = FALSE
  BY DEF Token
<1> HIDE DEF t
<1>3. [t EXCEPT !.padded = FALSE] = t
  BY <1>1, <1>2
<1> QED
  BY <1>3 DEF TrimSpace, t

LEMMA OwnAddressed ==
    ASSUME Caller.present, NEW t \in OwnTokens, NEW roles
    PROVE  AddressedTo(t, roles) /\ TrimSpace(t) = t
BY DEF OwnTokens, AddressedTo, Token, TrimSpace

\* What the world does is remembered, and changes nothing that is found.
LEMMA WorldStep == IInv /\ World => (Remembered /\ Addressed /\ Staged /\ Found /\ GrantChecked)'
<1> SUFFICES ASSUME IInv, World PROVE (Remembered /\ Addressed /\ Staged /\ Found /\ GrantChecked)'
  OBVIOUS
<1>1. /\ pc # "done" /\ pc' = pc /\ request' = request /\ tokens' = tokens /\ result' = result
      /\ outcome' = outcome /\ held \subseteq held' /\ granted \subseteq granted'
  BY DEF World, ChangeBindings, ChangeGrant, ChangeDocument
<1>2. Remembered'
  <2>1. CASE ChangeBindings
    BY <2>1 DEF ChangeBindings, IInv, Remembered, ActiveRoles, Effective
  <2>2. CASE ChangeGrant
    BY <2>2 DEF ChangeGrant, IInv, Remembered, ActiveRoles, Effective
  <2>3. CASE ChangeDocument
    BY <2>3 DEF ChangeDocument, IInv, Remembered, ActiveRoles, Effective
  <2> QED
    BY <2>1, <2>2, <2>3 DEF World
<1>3. \A t : AddressedTo(t, held) => AddressedTo(t, held)'
  BY <1>1 DEF AddressedTo, Caller
<1>4. Addressed'
  BY <1>1, <1>3 DEF IInv, Addressed
<1>5. Staged'
  BY <1>1 DEF IInv, Staged, RightTenant, Caller, HasResolver, Requested
<1>6. Found'
  <2>1. RightTenant => RightTenant'
    BY <1>1 DEF RightTenant, Caller, HasResolver
  <2> QED
    BY <1>1, <1>3, <2>1 DEF IInv, Found
<1>7. GrantChecked'
  BY <1>1 DEF IInv, TypeOK, GrantChecked, Requested
<1> QED
  BY <1>2, <1>4, <1>5, <1>6, <1>7

\* The resolver, and the transports without it, address the caller only.
LEMMA ResolveStep ==
    ASSUME IInv, Identify \/ IdentifyAlone \/ ListBindings
    PROVE  (Remembered /\ Addressed /\ Staged /\ Found /\ GrantChecked)'
<1>1. /\ bindings' = bindings /\ grants' = grants /\ request' = request /\ result' = result
      /\ held' = held /\ granted' = granted /\ pc \in {"resolve", "list"}
  BY DEF Identify, IdentifyAlone, ListBindings
<1>2. result = {} /\ Remembered'
  BY <1>1 DEF IInv, Staged, Remembered, ActiveRoles, Effective
<1>3. pc' \in {"list", "query", "authorize", "done"} /\ outcome' # "ok"
  BY DEF Identify, IdentifyAlone, ListBindings, GoTo, Finish, AfterTokens, IInv, TypeOK
<1>4. /\ pc' = "authorize" => request.operation # "get"
      /\ pc' = "query" => request.operation = "get"
  BY DEF Identify, IdentifyAlone, ListBindings, GoTo, Finish, AfterTokens
<1>5. pc' # "done" => RightTenant
  <2>1. CASE Identify
    BY <2>1 DEF Identify, GoTo, Finish, RightTenant, TenantMismatch
  <2>2. CASE IdentifyAlone
    BY <2>2 DEF IdentifyAlone, GoTo, Finish, RightTenant, TenantMismatch
  <2>3. CASE ListBindings
    BY <2>3 DEF ListBindings, IInv, Staged
  <2> QED
    BY <2>1, <2>2, <2>3
<1>6. pc' = "list" => HasResolver /\ Caller.present /\ Caller.membershipId # Empty
  <2>1. CASE Identify
    BY <2>1 DEF Identify, GoTo, Finish, AfterTokens
  <2>2. CASE IdentifyAlone
    BY <2>2 DEF IdentifyAlone, GoTo, Finish, AfterTokens
  <2>3. CASE ListBindings
    BY <2>3 DEF ListBindings, IInv, Staged
  <2> QED
    BY <2>1, <2>2, <2>3
<1>7. \A t \in tokens' : TrimSpace(t) = t /\ AddressedTo(t, held)
  <2>1. \A t \in tokens : TrimSpace(t) = t /\ AddressedTo(t, held)
    BY DEF IInv, Addressed
  <2>2. CASE Identify \/ IdentifyAlone
    <3>1. tokens' = tokens \/ tokens' = {} \/ (tokens' = OwnTokens /\ Caller.present)
      BY <2>2 DEF Identify, IdentifyAlone
    <3> QED
      BY <2>1, <3>1, OwnAddressed
  <2>3. CASE ListBindings
    <3> SUFFICES ASSUME NEW t \in tokens', t \notin tokens PROVE TrimSpace(t) = t /\ AddressedTo(t, held)
      BY <2>1
    <3>1. PICK i \in DOMAIN bindings : Effective(bindings[i]) /\ t = Token("role", bindings[i].role)
      BY <2>3 DEF ListBindings, OnPage
    <3>2. bindings[i].role \in held
      BY <3>1 DEF IInv, Remembered, ActiveRoles
    <3>3. Caller.present
      BY <2>3 DEF ListBindings, IInv, Staged
    <3>4. AddressedTo(t, held)
      BY <3>1, <3>2, <3>3 DEF AddressedTo
    <3>5. TrimSpace(t) = t
      BY <3>1, TokenTrimmed
    <3> QED
      BY <3>4, <3>5
  <2> QED
    BY <2>2, <2>3
<1>8. Addressed'
  BY <1>1, <1>7 DEF Addressed, AddressedTo, Caller
<1>9. Staged'
  BY <1>1, <1>2, <1>3, <1>4, <1>5, <1>6 DEF Staged, RightTenant, Caller, HasResolver
<1>10. Found'
  BY <1>1, <1>2 DEF Found
<1>11. GrantChecked'
  BY <1>3 DEF GrantChecked
<1> QED
  BY <1>2, <1>8, <1>9, <1>10, <1>11

\* A document the filter matches may be shown to the caller.
LEMMA MatchVisible ==
    ASSUME IInv, NEW d, Matches(d)
    PROVE  d.tenantId = request.tenantId /\ \E t \in d.visibilityTokens : AddressedTo(t, held)
<1>1. PICK v \in d.visibilityTokens : v \in Visibility
  BY DEF Matches
<1>2. CASE v = Broad(request.tenantId)
  BY <1>1, <1>2 DEF AddressedTo, Matches
<1>3. ASSUME NEW t \in tokens, v = TrimSpace(t) PROVE AddressedTo(v, held)
  BY <1>3 DEF IInv, Addressed
<1> QED
  BY <1>1, <1>2, <1>3 DEF Visibility, Matches

\* Authorize, the queries and the check of a found document's application.
LEMMA AuthorizeStep ==
    ASSUME IInv, Authorize
    PROVE  (Remembered /\ Addressed /\ Staged /\ Found /\ GrantChecked)'
<1>1. /\ bindings' = bindings /\ grants' = grants /\ request' = request /\ result' = result
      /\ held' = held /\ granted' = granted /\ tokens' = tokens /\ pc = "authorize" /\ result = {}
  BY DEF Authorize, IInv, Staged
<1>2. /\ pc' \in {"query", "done"} /\ outcome' # "ok" /\ RightTenant
      /\ pc' = "query" => Requested \subseteq granted
  BY DEF Authorize, GoTo, Finish, IInv, TypeOK, Staged, Remembered
<1>3. Remembered' /\ Addressed' /\ Found'
  BY <1>1 DEF IInv, Remembered, ActiveRoles, Effective, Addressed, AddressedTo, Caller, Found
<1>4. Staged'
  BY <1>1, <1>2 DEF Staged, RightTenant, Caller, HasResolver, Requested
<1>5. GrantChecked'
  BY <1>2 DEF GrantChecked
<1> QED
  BY <1>3, <1>4, <1>5

LEMMA QueryStep ==
    ASSUME IInv, Query
    PROVE  (Remembered /\ Addressed /\ Staged /\ Found /\ GrantChecked)'
<1>1. /\ bindings' = bindings /\ grants' = grants /\ request' = request
      /\ held' = held /\ granted' = granted /\ tokens' = tokens /\ pc = "query" /\ pc' = "done"
      /\ request.operation # "get" /\ RightTenant /\ Requested \subseteq granted
  BY DEF Query, Finish, IInv, Staged
<1>2. \A d \in result' : Matches(d)
  BY DEF Query, kSubset
<1>3. Remembered' /\ Addressed'
  BY <1>1 DEF IInv, Remembered, ActiveRoles, Effective, Addressed, AddressedTo, Caller
<1>4. Staged'
  BY <1>1 DEF Staged
<1>5. Found'
  <2>1. \A d \in result' : /\ d.tenantId = request.tenantId /\ RightTenant
                           /\ \E t \in d.visibilityTokens : AddressedTo(t, held)
    BY <1>1, <1>2, MatchVisible
  <2> QED
    BY <1>1, <2>1 DEF Found, RightTenant, AddressedTo, Caller, HasResolver
<1>6. GrantChecked'
  <2>1. Requested # {} => \A d \in result' : d.applicationId \in Requested
    BY <1>2 DEF Matches
  <2> QED
    BY <1>1, <2>1 DEF GrantChecked, Requested
<1> QED
  BY <1>3, <1>4, <1>5, <1>6

LEMMA QueryOneStep ==
    ASSUME IInv, QueryOne
    PROVE  (Remembered /\ Addressed /\ Staged /\ Found /\ GrantChecked)'
<1>1. /\ bindings' = bindings /\ grants' = grants /\ request' = request
      /\ held' = held /\ granted' = granted /\ tokens' = tokens /\ pc = "query"
      /\ request.operation = "get" /\ RightTenant /\ outcome = "pending"
  BY DEF QueryOne, IInv, Staged, TypeOK
<1>2. \/ result' = {} /\ pc' = "done" /\ outcome' # "ok"
      \/ \E d : /\ Matches(d) /\ result' = {d}
                /\ \/ d.applicationId = "" /\ pc' = "done"
                   \/ pc' = "recheck" /\ outcome' = "pending"
  BY <1>1 DEF QueryOne, Finish, GoTo
<1>3. Remembered' /\ Addressed'
  BY <1>1 DEF IInv, Remembered, ActiveRoles, Effective, Addressed, AddressedTo, Caller
<1>4. Staged'
  BY <1>1, <1>2 DEF Staged, RightTenant, Caller, HasResolver
<1>5. Found'
  <2>1. \A d \in result' : /\ d.tenantId = request.tenantId /\ RightTenant
                           /\ \E t \in d.visibilityTokens : AddressedTo(t, held)
    BY <1>1, <1>2, MatchVisible
  <2> QED
    BY <1>1, <2>1 DEF Found, RightTenant, AddressedTo, Caller, HasResolver
<1>6. GrantChecked'
  BY <1>1, <1>2 DEF GrantChecked
<1> QED
  BY <1>3, <1>4, <1>5, <1>6

LEMMA RecheckStep ==
    ASSUME IInv, Recheck \/ DependencyFails
    PROVE  (Remembered /\ Addressed /\ Staged /\ Found /\ GrantChecked)'
<1>1. /\ bindings' = bindings /\ grants' = grants /\ request' = request
      /\ held' = held /\ granted' = granted /\ tokens' = tokens
  BY DEF Recheck, DependencyFails
<1>2. /\ pc' = "done"
      /\ \/ result' = {} /\ outcome' # "ok"
         \/ /\ request.operation = "get" /\ result' = result
            /\ \A d \in result : d.applicationId \in granted
  <2>1. CASE Recheck
    <3>1. PICK d : result = {d}
      BY <2>1 DEF Recheck, IInv, Staged
    <3> QED
      BY <2>1, <3>1 DEF Recheck, Finish, IInv, Staged, Remembered
  <2>2. CASE DependencyFails
    BY <2>2 DEF DependencyFails, Finish
  <2> QED
    BY <2>1, <2>2
<1>3. Remembered' /\ Addressed'
  BY <1>1 DEF IInv, Remembered, ActiveRoles, Effective, Addressed, AddressedTo, Caller
<1>4. Staged'
  BY <1>2 DEF Staged
<1>5. Found'
  BY <1>1, <1>2 DEF IInv, Found, RightTenant, AddressedTo, Caller, HasResolver
<1>6. GrantChecked'
  BY <1>1, <1>2 DEF GrantChecked
<1> QED
  BY <1>3, <1>4, <1>5, <1>6

LEMMA IInvStep == IInv /\ [Next]_vars => IInv'
<1> SUFFICES ASSUME IInv, [Next]_vars PROVE IInv'
  OBVIOUS
<1>1. TypeOK'
  BY TypeStep DEF IInv, Staged
<1>2. CASE UNCHANGED vars
  BY ZenonT(40), <1>1, <1>2 DEF vars, IInv, Remembered, ActiveRoles, Effective, Addressed, AddressedTo, Staged, Found,
                    GrantChecked, RightTenant, Caller, HasResolver, Requested
<1> QED
  BY <1>1, <1>2, WorldStep, ResolveStep, AuthorizeStep, QueryStep, QueryOneStep, RecheckStep
     DEF IInv, Next, Serve, Proceed

LEMMA Invariant == Spec => []IInv
BY Init_IInv, IInvStep, PTL DEF Spec

-----------------------------------------------------------------------------

\* Types; the resolver never reads past its last page.
THEOREM TypeCorrect == Spec => []TypeOK
<1>1. IInv => TypeOK
  BY DEF IInv
<1> QED
  BY <1>1, Invariant, PTL

\* A document is returned only to a caller of its tenant it is addressed to,
\* by a role held during the request.
THEOREM Visible == Spec => []ReturnedVisible
<1>1. IInv => ReturnedVisible
  BY DEF IInv, Found, RightTenant, ReturnedVisible, MayShow
<1> QED
  BY <1>1, Invariant, PTL

\* Applications are checked against grants of the request's time.
THEOREM Granted == Spec => []GrantChecked
<1>1. IInv => GrantChecked
  BY DEF IInv
<1> QED
  BY <1>1, Invariant, PTL

-----------------------------------------------------------------------------
(* Bindings read page by page.                                             *)

\* The names of the role tokens resolved so far.
Roles == {t.name : t \in {x \in tokens : x.kind = "role"}}

\* The roles of the first n bindings.
RolesUpTo(n) == {bindings[i].role : i \in {j \in DOMAIN bindings : Effective(bindings[j]) /\ j <= n}}

\* While nothing changes, the pages read so far are complete.
Reading ==
    /\ pc = "resolve" => page = 1
    /\ pc = "list" /\ quiet => Roles = RolesUpTo((page - 1) * PageSize)

\* A page follows upon the page before it.
LEMMA Pages ==
    ASSUME NEW p \in 1..MaxPages
    PROVE  /\ p \in Nat /\ (p - 1) * PageSize \in Nat /\ p * PageSize \in Nat
           /\ p * PageSize = (p - 1) * PageSize + PageSize
<1>1. p - 1 \in Nat /\ PageSize \in Nat
  OBVIOUS
<1>2. \A a, b \in Nat : a * b \in Nat /\ (a + 1) * b = a * b + b
  OBVIOUS
<1>3. (p - 1) * PageSize \in Nat /\ ((p - 1) + 1) * PageSize = (p - 1) * PageSize + PageSize
  BY <1>1, <1>2
<1>4. (p - 1) + 1 = p
  OBVIOUS
<1> QED
  BY <1>1, <1>3, <1>4

\* Bindings are a list.
LEMMA BindingsList ==
    ASSUME TypeOK
    PROVE  /\ Len(bindings) \in Nat
           /\ DOMAIN bindings = 1..Len(bindings)
<1>1. CASE HasResolver
  <2>1. PICK n \in 0..MaxBindings : bindings \in [1..n -> Binding]
    BY <1>1 DEF TypeOK, BindingLists
  <2> QED
    BY <2>1
<1>2. CASE ~ HasResolver
  BY <1>2 DEF TypeOK, BindingLists
<1> QED
  BY <1>1, <1>2

\* A page adds the roles of its bindings, and the last one the last of them.
LEMMA PageRead ==
    ASSUME TypeOK, Reading, quiet, ListBindings
    PROVE  /\ Roles' = RolesUpTo(page * PageSize)
           /\ LastPage(page) => Roles' = ActiveRoles(bindings)
<1> DEFINE lo == (page - 1) * PageSize
           hi == page * PageSize
<1>1. lo \in Nat /\ hi \in Nat /\ hi = lo + PageSize
  BY Pages DEF TypeOK
<1>2. OnPage(page) = {i \in DOMAIN bindings : lo < i /\ i <= hi}
  BY DEF OnPage
<1>3. \A i \in DOMAIN bindings : i \in Nat \ {0}
  BY BindingsList
<1>4. Roles = RolesUpTo(lo)
  BY DEF Reading, ListBindings
<1>5. LastPage(page) <=> hi >= Len(bindings) \/ OnPage(page) = {}
  BY DEF LastPage
<1> HIDE DEF lo, hi
<1> DEFINE read == {bindings[i].role : i \in {j \in OnPage(page) : Effective(bindings[j])}}
<1>6. Roles' = Roles \cup read
  <2>1. tokens' = tokens \cup {Token("role", bindings[i].role) :
                                 i \in {j \in OnPage(page) : Effective(bindings[j])}}
    BY DEF ListBindings
  <2>2. \A name : Token("role", name).kind = "role" /\ Token("role", name).name = name
    BY DEF Token
  <2> QED
    BY <2>1, <2>2 DEF Roles
<1>7. Roles' = RolesUpTo(hi)
  BY <1>1, <1>2, <1>3, <1>4, <1>6 DEF RolesUpTo
<1>8. ASSUME LastPage(page) PROVE \A j \in DOMAIN bindings : j <= hi
  <2>1. CASE hi >= Len(bindings)
    BY <1>1, <2>1, BindingsList
  <2>2. CASE OnPage(page) = {}
    <3>1. lo + 1 \notin DOMAIN bindings
      BY <1>1, <1>2, <2>2
    <3> QED
      BY <1>1, <3>1, BindingsList
  <2> QED
    BY <1>5, <1>8, <2>1, <2>2
<1>9. ASSUME LastPage(page) PROVE RolesUpTo(hi) = ActiveRoles(bindings)
  BY <1>8, <1>9 DEF RolesUpTo, ActiveRoles
<1> QED
  BY <1>7, <1>9 DEF hi

LEMMA OwnNoRole == {t.name : t \in {x \in OwnTokens : x.kind = "role"}} = {}
BY DEF OwnTokens, Token

LEMMA ReadingStep ==
    ASSUME TypeOK, Reading, RolesComplete, [Next]_vars, pc = "recheck" => \E d : result = {d}
    PROVE  Reading' /\ RolesComplete'
<1>1. CASE World
  <2>1. ~ quiet' /\ pc' = pc /\ page' = page
    BY <1>1 DEF World, ChangeBindings, ChangeGrant, ChangeDocument
  <2> QED
    BY <2>1 DEF Reading, RolesComplete
<1>2. CASE Identify
  <2>1. pc = "resolve" /\ page' = page /\ bindings' = bindings /\ request' = request /\ page = 1
    BY <1>2 DEF Identify, Reading
  <2>2. CASE pc' = "list"
    <3>1. tokens' = OwnTokens
      BY <1>2, <2>2 DEF Identify, GoTo, Finish
    <3>2. Roles' = {}
      BY <3>1, OwnNoRole DEF Roles
    <3>3. (RolesUpTo((page - 1) * PageSize))' = {}
      <4>1. (page' - 1) * PageSize = 0
        BY <2>1
      <4>2. \A j \in DOMAIN bindings : j \in Nat \ {0}
        BY BindingsList
      <4> QED
        BY <2>1, <4>1, <4>2 DEF RolesUpTo
    <3> QED
      BY <2>2, <3>2, <3>3 DEF Reading, RolesComplete
  <2>3. CASE pc' # "list"
    <3>1. pc' # "resolve"
      BY <1>2 DEF Identify, GoTo, Finish, AfterTokens
    <3>2. outcome' \in {"unavailable", "forbidden"} \/ Caller.membershipId = Empty
      BY <1>2, <2>3 DEF Identify, GoTo, Finish
    <3> QED
      BY <2>1, <2>3, <3>1, <3>2 DEF Reading, RolesComplete, Caller
  <2> QED
    BY <2>2, <2>3
<1>3. CASE IdentifyAlone
  <2>1. ~ HasResolver /\ request' = request /\ pc' \notin {"resolve", "list"}
    BY <1>3 DEF IdentifyAlone, GoTo, Finish, AfterTokens
  <2> QED
    BY <2>1 DEF Reading, RolesComplete, HasResolver
<1>4. CASE ListBindings
  <2>1. pc' # "resolve" /\ bindings' = bindings /\ quiet' = quiet
    BY <1>4 DEF ListBindings, GoTo, Finish, AfterTokens
  <2>2. CASE quiet /\ LastPage(page)
    <3>1. Roles' = ActiveRoles(bindings) /\ pc' # "list"
      BY <1>4, <2>2, PageRead DEF ListBindings, GoTo, Finish, AfterTokens
    <3> QED
      BY <2>1, <3>1 DEF Reading, RolesComplete, Roles, ActiveRoles, Effective
  <2>3. CASE quiet /\ ~ LastPage(page)
    <3>1. \/ pc' = "list" /\ page' = page + 1
          \/ pc' = "done" /\ outcome' = "unavailable"
      BY <1>4, <2>3 DEF ListBindings, GoTo, Finish
    <3>2. Roles' = RolesUpTo(page * PageSize)
      BY <1>4, <2>3, PageRead
    <3>3. page' = page + 1 => page' - 1 = page
      BY DEF TypeOK
    <3>4. (RolesUpTo((page - 1) * PageSize))' = RolesUpTo((page' - 1) * PageSize)
      BY <2>1 DEF RolesUpTo, Effective
    <3>5. page' = page + 1 => (page' - 1) * PageSize = page * PageSize
      BY <3>3, Zenon
    <3> QED
      BY <2>1, <3>1, <3>2, <3>4, <3>5 DEF Reading, RolesComplete
  <2>4. CASE ~ quiet
    BY <2>1, <2>4 DEF Reading, RolesComplete
  <2> QED
    BY <2>2, <2>3, <2>4
<1>5. CASE Authorize \/ Query \/ QueryOne \/ Recheck \/ DependencyFails
  <2>1. /\ pc \in {"list", "authorize", "query", "recheck"} /\ pc' \in {"query", "recheck", "done"}
        /\ bindings' = bindings /\ request' = request /\ tokens' = tokens /\ quiet' = quiet
        /\ pc = "list" => outcome' = "unavailable"
    <3>1. CASE Recheck
      <4>1. PICK d : result = {d}
        BY <3>1 DEF Recheck
      <4> QED
        BY <3>1, <4>1 DEF Recheck, Finish
    <3> QED
      BY <1>5, <3>1 DEF Authorize, Query, QueryOne, DependencyFails, GoTo, Finish
  <2>2. outcome = "pending"
    BY <2>1 DEF TypeOK
  <2> QED
    BY <2>1, <2>2 DEF Reading, RolesComplete, Caller, HasResolver, ActiveRoles, Effective
<1>6. CASE UNCHANGED vars
  BY ZenonT(40), <1>6 DEF vars, Reading, RolesComplete, Roles, RolesUpTo, Caller, HasResolver, ActiveRoles, Effective
<1> QED
  BY <1>1, <1>2, <1>3, <1>4, <1>5, <1>6 DEF Next, Serve, Proceed

\* Bindings that did not change meanwhile are read completely, in pages of any
\* size; a list beyond the limit is an error (VisibilityTokens).
THEOREM Complete == Spec => []RolesComplete
<1>1. Init => Reading /\ RolesComplete
  BY DEF Init, Reading, RolesComplete
<1>2. IInv => TypeOK
  BY DEF IInv
<1>3. IInv => (pc = "recheck" => \E d : result = {d})
  BY DEF IInv, Staged
<1>4. IInv /\ Reading /\ RolesComplete /\ [Next]_vars => Reading' /\ RolesComplete'
  BY <1>2, <1>3, ReadingStep
<1> QED
  BY <1>1, <1>4, Invariant, PTL DEF Spec

-----------------------------------------------------------------------------
(* What a page of a search shows.                                          *)

\* A resolver's answer has the caller's own tokens, and no others without a
\* membership.
Whole ==
    HasResolver /\ pc \in {"list", "authorize", "query", "recheck"} =>
        /\ Caller.present
        /\ OwnTokens \subseteq tokens
        /\ Caller.membershipId = Empty => tokens = OwnTokens

\* The smaller of two.
LEMMA Smaller ==
    ASSUME NEW a \in Int, NEW b \in Int
    PROVE  Min({a, b}) = IF a <= b THEN a ELSE b
<1> DEFINE m == IF a <= b THEN a ELSE b
           P(x) == x \in {a, b} /\ \A y \in {a, b} : x =< y
<1>1. P(m)
  OBVIOUS
<1>2. \A x : P(x) => x = m
  OBVIOUS
<1>3. Min({a, b}) = CHOOSE x : P(x)
  BY Zenon DEF Min
<1> HIDE DEF P, m
<1>4. (CHOOSE x : P(x)) = m
  BY <1>1, <1>2, Zenon
<1> QED
  BY <1>3, <1>4 DEF m

\* A page from an offset that fits shows what the pages before have left.
LEMMA PageLeft ==
    ASSUME TypeOK, NEW n \in Nat, (Page - 1) * Size < Width
    PROVE  LET before == Min({(Page - 1) * Size, n})
           IN  Shown(n) = Min({Size, n - before})
<1>1. Page \in Nat \ {0} /\ Size \in Nat
  <2>1. request.page \in Nat /\ request.size \in Nat
        /\ request.operation \in {"search", "suggest", "get"}
    BY RequestAssumption DEF TypeOK
  <2>2. DefaultSize[request.operation] \in Nat /\ MaxSize[request.operation] \in Nat
    BY <2>1
  <2> DEFINE wanted == IF request.size = 0 THEN DefaultSize[request.operation] ELSE request.size
  <2>3. wanted \in Nat
    BY <2>1, <2>2
  <2>4. Size = Min({wanted, MaxSize[request.operation]})
    BY DEF Size
  <2> HIDE DEF wanted
  <2>5. Size \in Nat
    BY <2>2, <2>3, <2>4, Smaller
  <2> QED
    BY <2>1, <2>5 DEF Page
<1> DEFINE from == (Page - 1) * Size
<1>2. from \in Nat
  <2>1. Page - 1 \in Nat
    BY <1>1
  <2>2. \A a, b \in Nat : a * b \in Nat
    OBVIOUS
  <2> QED
    BY <1>1, <2>1, <2>2
<1>3. Offset = from % Width /\ from < Width
  BY DEF Offset
<1> DEFINE size == Size
<1>4. size \in Nat /\ Shown(n) = IF n <= Offset THEN 0 ELSE Min({n - Offset, size})
  BY <1>1 DEF Shown
<1> HIDE DEF from, size
<1>5. Offset = from
  BY <1>2, <1>3
<1>6. Shown(n) = Min({size, n - Min({from, n})})
  <2>1. CASE n <= from
    <3>1. Min({from, n}) = n /\ n - n = 0 /\ Min({size, 0}) = 0
      BY <1>2, <1>4, <2>1, Smaller
    <3> QED
      BY <1>4, <1>5, <2>1, <3>1
  <2>2. CASE ~ n <= from
    <3>1. Min({from, n}) = from
      BY <1>2, <2>2, Smaller
    <3>2. {n - from, size} = {size, n - from}
      OBVIOUS
    <3> QED
      BY <1>4, <1>5, <2>2, <3>1, <3>2
  <2> QED
    BY <2>1, <2>2
<1> QED
  BY <1>6 DEF from, size

\* With bindings that did not change the query asks for the caller's tokens.
LEMMA TokensAsked ==
    ASSUME IInv, RolesComplete, Whole, quiet, HasResolver, pc = "query", NEW v
    PROVE  v \in Visibility <=>
             AddressedTo(v, IF Caller.membershipId = Empty THEN {} ELSE ActiveRoles(bindings))
<1> DEFINE roles == IF Caller.membershipId = Empty THEN {} ELSE ActiveRoles(bindings)
<1>1. Caller.present /\ OwnTokens \subseteq tokens /\ (Caller.membershipId = Empty => tokens = OwnTokens)
  BY DEF Whole
<1>2. \A t \in tokens : TrimSpace(t) = t /\ AddressedTo(t, held)
  BY DEF IInv, Addressed
<1>3. \A k, name : Token(k, name).kind = k /\ Token(k, name).name = name
  BY DEF Token
<1>4. Broad(request.tenantId).kind = "tenant"
  BY DEF Broad
<1>5. Caller.membershipId # Empty => {t.name : t \in {x \in tokens : x.kind = "role"}} = ActiveRoles(bindings)
  BY DEF RolesComplete, IInv, TypeOK
<1>6. ASSUME v \in Visibility PROVE AddressedTo(v, roles)
  <2>1. CASE v = Broad(request.tenantId)
    BY <2>1 DEF AddressedTo
  <2>2. ASSUME v \in tokens PROVE AddressedTo(v, roles)
    <3>1. ASSUME NEW r, v = Token("role", r) PROVE r \in roles
      <4>1. Caller.membershipId # Empty
        BY <1>1, <1>3, <2>2, <3>1 DEF OwnTokens
      <4>2. v.kind = "role" /\ v.name = r
        BY <1>3, <3>1
      <4> QED
        BY <1>5, <2>2, <4>1, <4>2
    <3> QED
      BY <1>1, <1>2, <2>2, <3>1 DEF AddressedTo
  <2> QED
    BY <1>2, <1>6, <2>1, <2>2 DEF Visibility
<1>7. ASSUME AddressedTo(v, roles) PROVE v \in Visibility
  <2>1. CASE v = Broad(request.tenantId)
    BY <2>1 DEF Visibility
  <2>2. ASSUME v \in tokens PROVE v \in Visibility
    <3>1. TrimSpace(v) = v
      BY <1>2, <2>2
    <3> QED
      BY <2>2, <3>1 DEF Visibility
  <2>3. CASE v = Token("user", Caller.id) \/ (Caller.membershipId # Empty /\ v = Token("membership", Caller.membershipId))
    BY <1>1, <2>2, <2>3 DEF OwnTokens
  <2>4. ASSUME NEW r \in roles, v = Token("role", r) PROVE v \in Visibility
    <3>1. PICK x \in tokens : x.kind = "role" /\ x.name = r
      BY <1>5, <2>4
    <3>2. x = v
      BY <1>2, <1>3, <1>4, <2>4, <3>1 DEF AddressedTo
    <3> QED
      BY <2>2, <3>1, <3>2
  <2> QED
    BY <1>7, <2>1, <2>3, <2>4 DEF AddressedTo
<1> QED
  BY <1>6, <1>7

LEMMA WholeStep ==
    ASSUME IInv, Whole, [Next]_vars
    PROVE  Whole'
<1>1. CASE World
  <2>1. pc' = pc /\ request' = request /\ tokens' = tokens
    BY <1>1 DEF World, ChangeBindings, ChangeGrant, ChangeDocument
  <2> QED
    BY <2>1 DEF Whole, HasResolver, Caller, OwnTokens
<1>2. CASE Identify
  <2>1. request' = request /\ (pc' = "done" \/ (tokens' = OwnTokens /\ Caller.present))
    BY <1>2 DEF Identify, GoTo, Finish
  <2> QED
    BY <2>1 DEF Whole, HasResolver, Caller, OwnTokens
<1>3. CASE IdentifyAlone
  BY <1>3 DEF IdentifyAlone, Whole, HasResolver
<1>4. CASE ListBindings
  <2>1. request' = request /\ tokens \subseteq tokens' /\ pc = "list"
    BY <1>4 DEF ListBindings
  <2>2. Caller.membershipId # Empty
    BY <2>1 DEF IInv, Staged
  <2> QED
    BY <2>1, <2>2 DEF Whole, HasResolver, Caller, OwnTokens
<1>5. CASE Authorize \/ Query \/ QueryOne \/ Recheck \/ DependencyFails
  <2>1. /\ pc \in {"list", "authorize", "query", "recheck"}
        /\ request' = request /\ tokens' = tokens
    BY <1>5 DEF Authorize, Query, QueryOne, Recheck, DependencyFails
  <2> QED
    BY <2>1 DEF Whole, HasResolver, Caller, OwnTokens
<1>6. CASE UNCHANGED vars
  BY <1>6 DEF vars, Whole, HasResolver, Caller, OwnTokens
<1> QED
  BY <1>1, <1>2, <1>3, <1>4, <1>5, <1>6 DEF Next, Serve, Proceed

\* The documents a search without filters is about: of the tenant, and
\* addressed to the caller.
Own ==
    {d \in documents :
        /\ d.tenantId = request.tenantId
        /\ \E t \in d.visibilityTokens :
              AddressedTo(t, IF Caller.membershipId = Empty THEN {} ELSE ActiveRoles(bindings))}

\* What the query of such a search answers.
LEMMA PageShown ==
    ASSUME IInv, RolesComplete, Whole, quiet, HasResolver, Query,
           Requested = {}, request.documentTypes = {}, DOMAIN request.filters = {},
           (Page - 1) * Size < Width
    PROVE  /\ result' \subseteq Own
           /\ Cardinality(result') =
                Min({Size, Cardinality(Own) - Min({(Page - 1) * Size, Cardinality(Own)})})
<1> DEFINE hits == {d \in documents : Matches(d)}
<1>1. pc = "query"
  BY DEF Query
<1>2. \A d \in documents : Matches(d) <=> d \in Own
  <2>1. \A d : Matches(d) <=> d.tenantId = request.tenantId /\ d.visibilityTokens \cap Visibility # {}
    BY DEF Matches
  <2>2. \A v : v \in Visibility <=>
               AddressedTo(v, IF Caller.membershipId = Empty THEN {} ELSE ActiveRoles(bindings))
    BY <1>1, TokensAsked
  <2> QED
    BY <2>1, <2>2 DEF Own
<1>3. hits = Own
  BY <1>2 DEF Own
<1>4. IsFiniteSet(Own)
  BY RequestAssumption, FS_Subset DEF IInv, TypeOK, Own
<1>5. Cardinality(Own) \in Nat
  BY <1>4, FS_CardinalityType
<1>6. result' \in kSubset(Shown(Cardinality(hits)), hits)
  BY DEF Query
<1>7. result' \subseteq Own /\ Cardinality(result') = Shown(Cardinality(Own))
  BY <1>3, <1>6 DEF kSubset
<1>8. Shown(Cardinality(Own)) = Min({Size, Cardinality(Own) - Min({(Page - 1) * Size, Cardinality(Own)})})
  BY <1>5, PageLeft DEF IInv
<1> QED
  BY <1>7, <1>8

LEMMA HolderStep ==
    ASSUME IInv, RolesComplete, Whole, HolderSees, [Next]_vars
    PROVE  HolderSees'
<1>1. CASE World
  <2>1. outcome' = outcome /\ outcome = "pending"
    BY <1>1 DEF World, ChangeBindings, ChangeGrant, ChangeDocument, IInv, TypeOK
  <2> QED
    BY <2>1 DEF HolderSees
<1>2. CASE Identify \/ IdentifyAlone \/ ListBindings \/ Authorize \/ DependencyFails
  <2>1. pc \in {"resolve", "list", "authorize", "query", "recheck"}
    BY <1>2 DEF Identify, IdentifyAlone, ListBindings, Authorize, DependencyFails
  <2>2. outcome = "pending"
    BY <2>1 DEF IInv, TypeOK
  <2>3. outcome' # "ok"
    BY <1>2, <2>2 DEF Identify, IdentifyAlone, ListBindings, Authorize, DependencyFails, Finish, GoTo
  <2> QED
    BY <2>3 DEF HolderSees
<1>3. CASE QueryOne \/ Recheck
  <2>1. request' = request /\ request.operation = "get"
    BY <1>3 DEF QueryOne, Recheck, IInv, Staged
  <2> QED
    BY <2>1 DEF HolderSees
<1>4. CASE Query
  <2>1. bindings' = bindings /\ documents' = documents /\ request' = request /\ quiet' = quiet
    BY <1>4 DEF Query
  <2>2. Own' = Own
    BY <2>1 DEF Own, AddressedTo, Caller, ActiveRoles, Effective
  <2>3. Page' = Page /\ Size' = Size /\ Requested' = Requested /\ HasResolver' = HasResolver
    BY <2>1 DEF Page, Size, Requested, HasResolver
  <2> SUFFICES ASSUME quiet, HasResolver, Requested = {}, request.documentTypes = {},
                      DOMAIN request.filters = {}, (Page - 1) * Size < Width
               PROVE  /\ result' \subseteq Own
                      /\ Cardinality(result') =
                           Min({Size, Cardinality(Own) - Min({(Page - 1) * Size, Cardinality(Own)})})
    BY Zenon, <2>1, <2>2, <2>3 DEF HolderSees, Own
  <2> QED
    BY <1>4, PageShown
<1>5. CASE UNCHANGED vars
  <2>1. /\ bindings' = bindings /\ documents' = documents /\ request' = request /\ quiet' = quiet
        /\ result' = result /\ outcome' = outcome
    BY <1>5 DEF vars
  <2>2. Own' = Own
    BY <2>1 DEF Own, AddressedTo, Caller, ActiveRoles, Effective
  <2>3. Page' = Page /\ Size' = Size /\ Requested' = Requested /\ HasResolver' = HasResolver
    BY <2>1 DEF Page, Size, Requested, HasResolver
  <2> QED
    BY ZenonT(40), <2>1, <2>2, <2>3 DEF HolderSees, Own
<1> QED
  BY <1>1, <1>2, <1>3, <1>4, <1>5 DEF Next, Serve, Proceed

\* In a quiet world a page of a Search without filters shows as many of the
\* caller's documents as the pages before it have left (normalizeVisibility,
\* normalizePage, buildSearchQuery), whatever the page sizes and limits.
THEOREM HolderServed == Spec => []HolderSees
<1>1. Init => Reading /\ RolesComplete /\ Whole /\ HolderSees
  BY DEF Init, Reading, RolesComplete, Whole, HolderSees
<1>2. IInv => TypeOK /\ (pc = "recheck" => \E d : result = {d})
  BY DEF IInv, Staged
<1>3. IInv /\ Reading /\ RolesComplete /\ Whole /\ HolderSees /\ [Next]_vars
      => Reading' /\ RolesComplete' /\ Whole' /\ HolderSees'
  BY <1>2, ReadingStep, WholeStep, HolderStep
<1> QED
  BY <1>1, <1>3, Invariant, PTL DEF Spec

-----------------------------------------------------------------------------
(* A read keeps what ReadPromise promises.                                 *)

\* Steps of the handler leave the world, and with it what may be shown.
LEMMA ServedAlone ==
    ASSUME Serve
    PROVE  Single' = Single /\ Asked' = Asked /\ Showable' = Showable /\ granted' = granted
<1>1. documents' = documents /\ request' = request /\ held' = held /\ granted' = granted
  BY DEF Serve, Proceed, Identify, IdentifyAlone, ListBindings, Authorize, Query, QueryOne,
         Recheck, DependencyFails
<1>2. \A d : MayShow(d)' <=> MayShow(d)
  BY <1>1 DEF MayShow, AddressedTo, Caller, HasResolver
<1>3. Showable' = Showable
  BY <1>1, <1>2 DEF Showable
<1> QED
  BY <1>1, <1>3 DEF Single, Asked, Requested

LEMMA PromiseStep ==
    ASSUME IInv, [Next]_vars
    PROVE  [Promise!Next]_(Promise!vars)
<1>1. CASE UNCHANGED vars
  <2>1. \A d : MayShow(d)' <=> MayShow(d)
    BY <1>1 DEF vars, MayShow, AddressedTo, Caller, HasResolver
  <2>2. Showable' = Showable
    BY <1>1, <2>1 DEF vars, Showable
  <2> QED
    BY <1>1, <2>2 DEF vars, Promise!vars, Single, Asked, Requested
<1>2. CASE World
  <2>1. request' = request /\ result' = result /\ outcome' = outcome /\ granted \subseteq granted'
    BY <1>2 DEF World, ChangeBindings, ChangeGrant, ChangeDocument
  <2>2. Promise!Change
    BY <2>1 DEF Promise!Change, Single, Asked, Requested
  <2> QED
    BY <2>2 DEF Promise!Next
<1>3. ASSUME Serve, outcome = "pending", outcome' \in Promise!Refusal, result' = {}
      PROVE  Promise!Next
  BY <1>3, ServedAlone DEF Promise!Next, Promise!Refuse
<1>4. ASSUME Serve, outcome' = outcome, result' = result PROVE UNCHANGED Promise!vars
  BY <1>4, ServedAlone DEF Promise!vars
<1>5. CASE Identify \/ IdentifyAlone \/ ListBindings \/ Authorize
  <2>1. pc \in {"resolve", "list", "authorize"} /\ Serve
    BY <1>5 DEF Identify, IdentifyAlone, ListBindings, Authorize, Serve, Proceed
  <2>2. outcome = "pending" /\ result = {}
    BY <2>1 DEF IInv, TypeOK, Staged
  <2>3. result' = result /\ (outcome' = outcome \/ outcome' \in Promise!Refusal)
    BY <1>5 DEF Identify, IdentifyAlone, ListBindings, Authorize, Finish, GoTo, Promise!Refusal
  <2> QED
    BY <1>3, <1>4, <2>1, <2>2, <2>3
<1>6. CASE DependencyFails
  <2>1. outcome = "pending" /\ outcome' \in Promise!Refusal /\ result' = {}
    BY <1>6 DEF DependencyFails, Finish, IInv, TypeOK, Promise!Refusal
  <2> QED
    BY <1>3, <1>6, <2>1 DEF Serve
<1>7. ASSUME NEW d, d \in documents, Matches(d), pc = "query" PROVE d \in Showable
  BY <1>7, MatchVisible DEF IInv, Staged, RightTenant, Showable, MayShow
<1>8. CASE Query
  <2>1. /\ pc = "query" /\ outcome = "pending" /\ outcome' = "ok" /\ result = {} /\ ~ Single
        /\ Requested \subseteq granted
    BY <1>8 DEF Query, Finish, IInv, TypeOK, Staged, Single
  <2>2. \A d \in result' : d \in documents /\ Matches(d)
    BY <1>8 DEF Query, kSubset
  <2>3. result' \subseteq Showable
    BY <1>7, <2>1, <2>2
  <2>4. \A d \in result' : Asked # {} => d.applicationId \in Asked
    BY <2>1, <2>2 DEF Matches, Asked
  <2>5. Promise!Answer
    BY <1>8, <2>1, <2>3, <2>4, ServedAlone DEF Promise!Answer, Promise!Cleared, Asked, Serve, Proceed
  <2> QED
    BY <2>5 DEF Promise!Next
<1>9. CASE QueryOne
  <2>1. pc = "query" /\ outcome = "pending" /\ result = {} /\ Single /\ Serve
    BY <1>9 DEF QueryOne, IInv, TypeOK, Staged, Single, Serve, Proceed
  <2>2. CASE result' = {} /\ outcome' \in Promise!Refusal
    BY <1>3, <2>1, <2>2
  <2>3. ASSUME NEW d \in documents, Matches(d), result' = {d}, d.applicationId = "", outcome' = "ok"
        PROVE  Promise!Next
    <3>1. d \in Showable
      BY <1>7, <2>1, <2>3
    <3>2. Promise!Answer
      BY <2>1, <2>3, <3>1, ServedAlone DEF Promise!Answer, Promise!Cleared
    <3> QED
      BY <3>2 DEF Promise!Next
  <2>4. ASSUME NEW d \in documents, Matches(d), result' = {d}, outcome' = outcome
        PROVE  Promise!Next
    <3>1. d \in Showable
      BY <1>7, <2>1, <2>4
    <3>2. Promise!Take
      BY <2>1, <2>4, <3>1, ServedAlone DEF Promise!Take
    <3> QED
      BY <3>2 DEF Promise!Next
  <2> QED
    BY <1>9, <2>2, <2>3, <2>4 DEF QueryOne, Finish, GoTo, Promise!Refusal
<1>10. CASE Recheck
  <2>1. pc = "recheck" /\ outcome = "pending" /\ Single /\ Serve
    BY <1>10 DEF Recheck, IInv, TypeOK, Staged, Single, Serve, Proceed
  <2>2. PICK d : result = {d}
    BY <2>1 DEF IInv, Staged
  <2>3. CASE d.applicationId \in grants /\ outcome' = "ok" /\ result' = result
    <3>1. d.applicationId \in granted
      BY <2>3 DEF IInv, Remembered
    <3>2. Promise!Answer
      BY <2>1, <2>2, <2>3, <3>1, ServedAlone DEF Promise!Answer, Promise!Cleared
    <3> QED
      BY <3>2 DEF Promise!Next
  <2>4. CASE outcome' = "forbidden" /\ result' = {}
    BY <1>3, <2>1, <2>4 DEF Promise!Refusal
  <2> QED
    BY <1>10, <2>2, <2>3, <2>4 DEF Recheck, Finish
<1> QED
  BY <1>1, <1>2, <1>5, <1>6, <1>8, <1>9, <1>10 DEF Next, Serve, Proceed

\* The read implements ReadPromise: the query takes documents from one state
\* of the index, the applications of Search and Suggest are cleared before it,
\* that of a Get after it; every other step stutters, changes the world or
\* refuses.
THEOREM PromiseKept == Spec => ImplementsPromise
<1>1. Init => Promise!Init
  BY DEF Init, Promise!Init
<1>2. IInv /\ [Next]_vars => [Promise!Next]_(Promise!vars)
  BY PromiseStep
<1> QED
  BY <1>1, <1>2, Invariant, PTL DEF Spec, ImplementsPromise

\* Finding 3 in general: whatever its documents are addressed to, a read
\* returns none on the strength of a service-account token, neither to a
\* service account nor to anybody else (VisibilityTokens).
THEOREM ServiceAccountsIgnored ==
    Spec => [](outcome = "ok" => \A d \in result :
                  \E t \in d.visibilityTokens : t.kind # "service-account")
<1>1. \A t : AddressedTo(t, held) => t.kind # "service-account"
  BY DEF AddressedTo, Token, Broad
<1>2. ReturnedVisible => (outcome = "ok" => \A d \in result :
                             \E t \in d.visibilityTokens : t.kind # "service-account")
  BY <1>1 DEF ReturnedVisible, MayShow
<1> QED
  BY <1>2, Visible, PTL

-----------------------------------------------------------------------------
(* How long a read may take.                                               *)

\* The steps a request has left at most.
StepsLeft ==
    CASE pc = "resolve" -> MaxPages + 4
      [] pc = "list" -> (MaxPages - page) + 4
      [] pc = "authorize" -> 3
      [] pc = "query" -> 2
      [] pc = "recheck" -> 1
      [] OTHER -> 0

\* However bindings, grants and documents change meanwhile, every step of the
\* handler brings a request closer to its answer: it is answered after at most
\* MaxPages + 4 steps of its own (the page limit of VisibilityTokens).
THEOREM AnswerNears ==
    Spec => [][/\ StepsLeft \in Nat
               /\ Serve => StepsLeft' < StepsLeft
               /\ World => StepsLeft' = StepsLeft]_vars
<1> DEFINE Nearing == /\ StepsLeft \in Nat
                      /\ Serve => StepsLeft' < StepsLeft
                      /\ World => StepsLeft' = StepsLeft
<1>1. IInv /\ [Next]_vars => [Nearing]_vars
  <2> SUFFICES ASSUME IInv, [Next]_vars PROVE Nearing
    OBVIOUS
  <2>1. page \in 1..MaxPages /\ MaxPages \in Nat
    BY DEF IInv, TypeOK
  <2>2. pc \in {"resolve", "list", "authorize", "query", "recheck", "done"}
    BY DEF IInv, TypeOK
  <2>3. StepsLeft \in Nat
    BY <2>1, <2>2 DEF StepsLeft
  <2>4. ASSUME World PROVE StepsLeft' = StepsLeft
    <3>1. pc' = pc /\ page' = page
      BY <2>4 DEF World, ChangeBindings, ChangeGrant, ChangeDocument
    <3> QED
      BY <3>1 DEF StepsLeft
  <2>5. ASSUME Serve PROVE StepsLeft' < StepsLeft
    <3>1. CASE Identify \/ IdentifyAlone
      <4>1. pc = "resolve" /\ pc' \in {"list", "authorize", "query", "done"} /\ page' = page
        BY <3>1 DEF Identify, IdentifyAlone, GoTo, Finish, AfterTokens
      <4> QED
        BY <2>1, <4>1 DEF StepsLeft
    <3>2. CASE ListBindings
      <4>1. /\ pc = "list"
            /\ \/ pc' = "list" /\ page < MaxPages /\ page' = page + 1
               \/ pc' \in {"authorize", "query", "done"}
        BY <3>2 DEF ListBindings, GoTo, Finish, AfterTokens
      <4> QED
        BY <2>1, <4>1 DEF StepsLeft
    <3>3. CASE Authorize \/ Query \/ QueryOne
      <4>1. \/ pc = "authorize" /\ pc' \in {"query", "done"}
            \/ pc = "query" /\ pc' \in {"recheck", "done"}
        BY <3>3 DEF Authorize, Query, QueryOne, GoTo, Finish
      <4> QED
        BY <4>1 DEF StepsLeft
    <3>4. CASE Recheck \/ DependencyFails
      <4>1. pc \in {"list", "authorize", "query", "recheck"} /\ pc' = "done"
        BY <3>4 DEF Recheck, DependencyFails, Finish, IInv, Staged
      <4> QED
        BY <2>1, <4>1 DEF StepsLeft
    <3> QED
      BY <2>5, <3>1, <3>2, <3>3, <3>4 DEF Serve, Proceed
  <2> QED
    BY <2>3, <2>4, <2>5
<1> QED
  BY <1>1, Invariant, PTL DEF Spec
=============================================================================
