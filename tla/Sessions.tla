------------------------------ MODULE Sessions ------------------------------
(***************************************************************************)
(* Single sign-on in a browser: the session and state cookies              *)
(* (internal/auth/session.go, session_middleware.go), the endpoints that   *)
(* set and clear them (internal/api/auth_endpoints.go), and the identity   *)
(* that a token's claims stand for (internal/auth/oidc.go,                 *)
(* oidc_identity.go).                                                      *)
(*                                                                         *)
(* The tabs of one browser share its cookies.  A request carries them as   *)
(* they are when it is sent, the server answers as of when it serves it,   *)
(* and the answer's cookies are stored when it arrives: between the three, *)
(* other tabs, the clock and the identity provider move.  The three random *)
(* tokens of a login (state, nonce and code verifier) are drawn together,  *)
(* and one number stands for them.                                         *)
(***************************************************************************)
EXTENDS Endpoints, Sequences

VARIABLES
    jar,        \* the browser's cookies: [session, state], each None or [value, key, expires]
    tab,        \* per tab: [pc, login, query, sent, reply, ...]
    logins,     \* logins begun so far
    claims,     \* what the provider says of the user now: [groups, team, teams, org, email]
    codes,      \* logins whose authorization code was exchanged
    key,        \* the server's session secret
    held        \* history: per role, the last time the provider's claims stood for it, or 0

sessionVars == <<jar, tab, logins, claims, codes, key, held>>

----------------------------------------------------------------------------
(* The identity a token stands for, by the OIDC configuration. *)
OIDC == set.OIDC

roleHierarchy == <<"proxy_admin", "proxy_admin_viewer", "org_admin", "internal_user",
                   "internal_user_viewer", "team">>
(* roleHierarchyIndex: unknown roles come last. *)
RoleHierarchyIndex(role) ==
    IF \E i \in 1..Len(roleHierarchy) : roleHierarchy[i] = role
    THEN CHOOSE i \in 1..Len(roleHierarchy) : roleHierarchy[i] = role ELSE Len(roleHierarchy) + 1

(* getHighestPriorityRole: the first of those with the lowest index *)
GetHighestPriorityRole(roles) ==
    roles[CHOOSE i \in 1..Len(roles) :
        \A j \in 1..Len(roles) : \/ RoleHierarchyIndex(roles[i]) < RoleHierarchyIndex(roles[j])
                                 \/ RoleHierarchyIndex(roles[i]) = RoleHierarchyIndex(roles[j]) /\ i <= j]

(* extractRole: the roles that the groups map to, in their order; the first, or the highest. *)
ExtractRole(c) ==
    LET known == SelectSeq(c.groups, LAMBDA g : g \in DOMAIN OIDC.RolesMap)
        matched == [i \in 1..Len(known) |-> OIDC.RolesMap[known[i]]]
    IN IF matched = <<>> THEN IF OIDC.DefaultRole = "" THEN "internal_user" ELSE OIDC.DefaultRole
       ELSE IF OIDC.UseRoleHierarchy THEN GetHighestPriorityRole(matched) ELSE matched[1]

(* extractTeamIDs and extractOrgID; an alias stands for what it is mapped to. *)
Unalias(map, id) == IF id \in DOMAIN map THEN map[id] ELSE id
ExtractTeamIDs(c) ==
    {Unalias(OIDC.TeamAliasMap, t) : t \in (IF OIDC.TeamIDJWTField THEN {c.team} \ {""} ELSE {})
                                           \cup (IF OIDC.TeamIDsJWTField THEN c.teams ELSE {})}
ExtractOrgID(c) ==
    IF ~ OIDC.OrgIDJWTField \/ c.org = "" THEN None ELSE Unalias(OIDC.OrgAliasMap, c.org)

(* IsEmailDomainAllowed: a token without an email passes. *)
IsEmailDomainAllowed(c) == OIDC.Domain = "" \/ c.email = "" \/ c.email = OIDC.Domain

(* ExtractOIDCIdentity *)
Identity(u, c) == [user |-> u, role |-> ExtractRole(c), teams |-> ExtractTeamIDs(c), org |-> ExtractOrgID(c)]

----------------------------------------------------------------------------
(* Cookies.  A value is sealed with the key and carries its own expiry. *)

(* NewSessionManager: a TTL that is not positive stands for the default. *)
SessionTTL == IF set.TTL <= 0 THEN 12 ELSE set.TTL
StateTTL == IF set.StateTTL <= 0 THEN 1 ELSE set.StateTTL

(* cookieCodec.encode and decode *)
Encode(value, ttl) == [value |-> value, key |-> key, expires |-> now + ttl, maxAge |-> ttl]
Decodes(cookie) == cookie.key = key

(* What an answer does to a cookie: nothing, clear it (Clear, ClearState), or set it (Set, SetState). *)
Keep == <<>>
ClearCookie == <<None>>
SetSession(session) == <<Encode(session, SessionTTL)>>
SetState(login) == <<Encode(login, StateTTL)>>

(* Get, and GetState with the callback's comparison: a value at its expiry is still good. *)
Get(cookie) == IF cookie = None THEN "not found" ELSE IF ~ Decodes(cookie) THEN "invalid"
               ELSE IF now > cookie.expires THEN "expired" ELSE "ok"
GetState(cookie, login) == Get(cookie) = "ok" /\ cookie.value = login

(* buildCookie: MaxAge is what is left of the lifetime, which the browser counts from the arrival;
   a cookie that has outlived it is not sent. *)
Stored(cookie) == IF cookie = None THEN None ELSE [cookie EXCEPT !.maxAge = now + @]
Sent(cookie) == IF cookie = None THEN None ELSE IF now >= cookie.maxAge THEN None ELSE cookie

----------------------------------------------------------------------------
(* Requests and answers. *)
NoTab == [pc |-> "idle", login |-> 0, query |-> "", sent |-> None, session |-> Keep, state |-> Keep,
          then |-> "idle", got |-> None, at |-> 0, key |-> 0, alone |-> TRUE, cut |-> FALSE]

(* The server answers tab c, which goes on to then when the answer arrives. *)
Answering(t, session, state, then) ==
    [t EXCEPT !.pc = "answer", !.session = session, !.state = state, !.then = then, !.sent = None]

(* The answer arrives: its cookies replace the browser's.  History: a login of another tab is no
   longer alone with its state cookie, and one that waits at the provider is cut off by a logout. *)
Answer(c) ==
    /\ tab[c].pc = "answer"
    /\ jar' = [session |-> IF tab[c].session = Keep THEN jar.session ELSE Stored(tab[c].session[1]),
                state |-> IF tab[c].state = Keep THEN jar.state ELSE Stored(tab[c].state[1])]
    /\ tab' = [b \in DOMAIN tab |->
          IF b = c THEN IF tab[c].then = "idle" THEN NoTab
                        ELSE [tab[c] EXCEPT !.pc = tab[c].then, !.session = Keep, !.state = Keep]
          ELSE [tab[b] EXCEPT !.alone = @ /\ tab[c].state = Keep,
                              !.cut = @ \/ (tab[c].query = "logout" /\ tab[b].pc = "provider")]]
    /\ UNCHANGED <<db, call, faults, ideal, links, logins, claims, codes, key, held>>

(* GET /auth/oidc/login: the state cookie, and a redirect to the provider. *)
OIDCLogin(c) ==
    /\ Free(c, "OIDCLogin") /\ tab[c] = NoTab /\ logins < set.MaxLogins
    /\ logins' = logins + 1
    /\ tab' = [tab EXCEPT ![c] = Answering([NoTab EXCEPT !.login = logins + 1, !.at = now, !.key = key], Keep,
                                          SetState(logins + 1), "provider")]
    /\ UNCHANGED <<db, call, faults, ideal, links, jar, claims, codes, key, held>>

(* The provider sends the browser back, with a code or an error, or the user opens the address
   without either; the request carries the state cookie of this moment. *)
Authorize(c) ==
    /\ tab[c].pc = "provider"
    /\ \E query \in {"code", "error", ""} :
          tab' = [tab EXCEPT ![c].pc = "callback", ![c].query = query, ![c].sent = Sent(jar.state)]
    /\ UNCHANGED <<db, call, faults, ideal, links, jar, logins, claims, codes, key, held>>

(* OIDCCallback, the query and the state: an error leaves the state cookie, anything that is wrong
   with the code or the state clears it. *)
CallbackRefused(c) ==
    /\ tab[c].pc = "callback"
    /\ \/ /\ tab[c].query = "error"
          /\ tab' = [tab EXCEPT ![c] = Answering(tab[c], Keep, Keep, "idle")]
       \/ /\ tab[c].query = ""
          /\ tab' = [tab EXCEPT ![c] = Answering(tab[c], Keep, ClearCookie, "idle")]
       \/ /\ tab[c].query = "code" /\ ~ GetState(tab[c].sent, tab[c].login)
          /\ tab' = [tab EXCEPT ![c] = Answering(tab[c], Keep, ClearCookie, "refused")]
    /\ UNCHANGED <<db, call, faults, ideal, links, jar, logins, claims, codes, key, held>>

(* The code is exchanged for a token, once, and the claims are read: a failure leaves the state
   cookie.  Then the user is synchronised, as a request of its own over the store. *)
CallbackFails(c) ==
    /\ tab[c].pc = "callback" /\ tab[c].query = "code" /\ GetState(tab[c].sent, tab[c].login)
    /\ tab' = [tab EXCEPT ![c] = Answering(tab[c], Keep, Keep, "refused")]
    /\ UNCHANGED <<db, call, faults, ideal, links, jar, logins, claims, codes, key, held>>

CallbackExchange(c) ==
    /\ tab[c].pc = "callback" /\ tab[c].query = "code" /\ GetState(tab[c].sent, tab[c].login)
    /\ tab[c].login \notin codes /\ IsEmailDomainAllowed(claims)
    /\ codes' = codes \cup {tab[c].login}
    /\ \E u \in Users :
          LET id == Identity(u, claims)
          IN /\ tab' = [tab EXCEPT ![c].pc = "sync", ![c].got = id, ![c].sent = None, ![c].at = now]
             /\ IF set.Sync THEN SyncBegin(c, u, id.teams, id.role, id.org)
                ELSE UNCHANGED <<db, call, faults, ideal>>
    /\ UNCHANGED <<links, jar, logins, claims, key, held>>

(* The session is made from the token's claims, whatever became of the synchronisation. *)
CallbackIssue(c) ==
    /\ tab[c].pc = "sync" /\ call[c] = Idle
    /\ tab' = [tab EXCEPT ![c] = Answering(tab[c], SetSession([id |-> tab[c].got, took |-> now - tab[c].at]),
                                          ClearCookie, "idle")]
    /\ UNCHANGED <<db, call, faults, ideal, links, jar, logins, claims, codes, key, held>>

(* The user reloads the callback's address, or gives up. *)
Reload(c) ==
    /\ tab[c].pc = "refused"
    /\ \/ tab' = [tab EXCEPT ![c].pc = "callback", ![c].sent = Sent(jar.state), ![c].alone = FALSE]
       \/ tab' = [tab EXCEPT ![c] = NoTab]
    /\ UNCHANGED <<db, call, faults, ideal, links, jar, logins, claims, codes, key, held>>

Logout_KeepsState(c) ==
    /\ Free(c, "Logout") /\ tab[c] = NoTab
    /\ tab' = [tab EXCEPT ![c] = Answering([NoTab EXCEPT !.query = "logout"], ClearCookie, Keep, "idle")]
    /\ UNCHANGED <<db, call, faults, ideal, links, jar, logins, claims, codes, key, held>>
(* GET or POST /auth/logout *)
Logout(c) ==
    /\ Free(c, "Logout") /\ tab[c] = NoTab
    /\ tab' = [tab EXCEPT ![c] = Answering([NoTab EXCEPT !.query = "logout"], ClearCookie, ClearCookie, "idle")]
    /\ UNCHANGED <<db, call, faults, ideal, links, jar, logins, claims, codes, key, held>>

----------------------------------------------------------------------------
(* Requests to the management interface. *)
Send(c) ==
    /\ Free(c, "Request") /\ tab[c] = NoTab
    /\ tab' = [tab EXCEPT ![c] = [NoTab EXCEPT !.pc = "request", !.query = "request", !.sent = Sent(jar.session)]]
    /\ UNCHANGED <<db, call, faults, ideal, links, jar, logins, claims, codes, key, held>>

(* managementAuthzMiddleware without a Casbin policy, for a user *)
Permitted(role) == role \in {"proxy_admin", "proxy_admin_viewer"}

(* SessionMiddleware, and the request itself: got is the identity that it is served under. *)
Serve(c) ==
    /\ tab[c].pc = "request"
    /\ LET found == Get(tab[c].sent)
           t == IF found = "ok" /\ Permitted(tab[c].sent.value.id.role)
                THEN [tab[c] EXCEPT !.got = tab[c].sent.value, !.at = now] ELSE tab[c]
       IN tab' = [tab EXCEPT ![c] = Answering(t, IF found \in {"expired", "invalid"} THEN ClearCookie ELSE Keep,
                                             Keep, "idle")]
    /\ UNCHANGED <<db, call, faults, ideal, links, jar, logins, claims, codes, key, held>>

(* OIDCMiddlewareWithSync: a request that carries a valid token synchronises its user before it is
   served. *)
Bearer(c) ==
    /\ Free(c, "Bearer") /\ tab[c] = NoTab /\ IsEmailDomainAllowed(claims)
    /\ \E u \in Users : LET id == Identity(u, claims) IN SyncBegin(c, u, id.teams, id.role, id.org)
    /\ UNCHANGED <<links, sessionVars>>

TabStep(c) == \/ Answer(c) \/ OIDCLogin(c) \/ Authorize(c) \/ CallbackRefused(c) \/ CallbackFails(c)
              \/ CallbackExchange(c) \/ CallbackIssue(c) \/ Reload(c) \/ Logout(c)
              \/ Send(c) \/ Serve(c) \/ Bearer(c)

(* The provider changes what it says of the user; the server comes back with another secret. *)
ChangeClaims ==
    /\ \E k \in set.Claims \ {claims} : /\ claims' = k
                                        /\ held' = [held EXCEPT ![ExtractRole(k)] = now]
    /\ UNCHANGED <<jar, tab, logins, codes, key>>

Rekey == /\ key < set.MaxKeys /\ key' = key + 1
         /\ UNCHANGED <<jar, tab, logins, claims, codes, held>>

SessionInit ==
    /\ jar = [session |-> None, state |-> None]
    /\ tab = [c \in set.Callers |-> NoTab]
    /\ logins = 0 /\ codes = {} /\ key = 1
    /\ claims \in set.Claims
    /\ held = [r \in {roleHierarchy[i] : i \in 1..Len(roleHierarchy)} |-> IF r = ExtractRole(claims) THEN now ELSE 0]

----------------------------------------------------------------------------
(* A callback is judged by its own login.  It is refused for its state only if another tab's answer
   touched the state cookie meanwhile, the server's secret changed, or the login took as long as the
   cookie lasts (two logins at once may both be refused: the second overwrites the cookie of the
   first, whose refusal then clears that of the second).  And it never becomes a session if its
   login still waited at the provider when a logout of the same browser took effect, as Logout
   clears the state cookie too (one whose callback was already under way does). *)
CallbacksJudgedByLogin == \A c \in set.Callers : tab[c].pc = "answer" =>
    /\ (tab[c].query = "code" /\ tab[c].session = Keep /\ tab[c].state = ClearCookie) =>
           \/ ~ tab[c].alone \/ tab[c].key # key \/ now >= tab[c].at + StateTTL
    /\ tab[c].session \notin {Keep, ClearCookie} => ~ tab[c].cut

(* A management request is served under a role that the identity provider gave the user at most a
   session's lifetime before, plus the time the login took: cookies are not revoked when the claims
   or the stored role change, but no restart, reload or reordered answer prolongs one. *)
RolesAreCurrent == \A c \in set.Callers :
    (tab[c].pc = "answer" /\ tab[c].query = "request" /\ tab[c].got # None) =>
        tab[c].at <= held[tab[c].got.id.role] + SessionTTL + tab[c].got.took

(* Sessions, among the tabs of one browser, a provider that changes its mind and a server that comes
   back with another secret: callbacks are judged by their own login, and roles are current. *)
SessionsSound == CallbacksJudgedByLogin /\ RolesAreCurrent

==============================================================================
