--------------------------- MODULE Authentication ---------------------------
(***************************************************************************)
(* AuthenticationService (src/services/authentication_service.rs), and the *)
(* part of AuthorizationService (src/services/authorization_service.rs)    *)
(* that decides by a token or by a user's row what the user may do.        *)
(*                                                                         *)
(* A token carries the permissions that its user had when the user's row   *)
(* was read, and is not looked up anywhere when it is shown: it is valid   *)
(* if it was signed with the secret of its kind and has not expired.  The  *)
(* row is read, and the token made from the copy later: a record of        *)
(* "issues" in between.  Users are changed by code outside the repository. *)
(***************************************************************************)
EXTENDS User, FiniteSets

CONSTANTS
    Users,         \* user ids
    Orgs,          \* organization ids
    ApiKeys,       \* api key ids
    KeyPermissions,  \* KeyPermissions[a]: what key a was made for
    Asked,         \* the permissions that callers ask for
    TokenLife,     \* jwt_expiry_time_minutes
    RefreshLife,   \* refresh_expiry_time_minutes
    Leeway,        \* the leeway of the token library
    MaxTokens,     \* bound: tokens of a kind at a time
    MaxCalls,      \* bound: calls in flight at a time
    MaxTime        \* bound: the clock stops here

Permission == {"job:read", "job:write", "queue:read", "queue:write",
               "worker:read", "worker:write", "organization:read",
               "organization:write", "project:read", "project:write",
               "user:read", "user:write", "admin", "refresh"}

ASSUME AuthenticationAssumption ==
    /\ Users \cap ApiKeys = {}
    /\ KeyPermissions \in [ApiKeys -> SUBSET Permission]
    /\ Asked \subseteq Permission
    /\ {TokenLife, RefreshLife, Leeway, MaxTokens, MaxCalls, MaxTime} \subseteq Nat

VARIABLES
    users,      \* users[u]: the row of user u
    tokens,     \* the access tokens in circulation, see AccessToken
    refreshes,  \* the claims of the refresh tokens in circulation
    renewals,   \* refresh_token calls that have accepted their token
    issues,     \* the tokens to be made, whose user has been read
    requests,   \* authenticate_and_authorize calls that accepted their token
    now,        \* the clock
    held        \* history: held[u][o][p] is the last time at which u was active
                \* in organization o in a role with permission p, plus one

authVars == <<users, tokens, refreshes, renewals, issues, requests, now, held>>

Claims == [sub         : Users \cup ApiKeys,
           org         : Orgs,
           exp         : Nat,
           iat         : Nat,
           permissions : SUBSET Permission,
           scope       : {"access", "refresh", "api_key"}]

\* The token of a key is made from no user's row.
NoRow == [role |-> "ApiKey"]

\* An access token is its claims.  History: the row it was made from, and when
\* that was read.
AccessToken == [claims : Claims, row : UserRow(Orgs) \cup {NoRow}, read : Nat]

\* A user's row that was read at login, or to renew a token of organization org.
Issue == [sub : Users, org : Orgs, row : UserRow(Orgs), read : Nat, login : BOOLEAN]

Request == [token : AccessToken, permission : Permission, at : Nat]

-----------------------------------------------------------------------------
\* get_user_permissions of AuthenticationService: by role.
GetUserPermissions(u) ==
    IF u.role = "Admin"
    THEN Permission \ {"refresh"}
    ELSE {"job:read", "job:write", "queue:read", "worker:read", "project:read"}

\* Mutant of RolePermissions: members may also write queues.
GenerousPermissions(u) ==
    IF u.role = "Admin"
    THEN Permission \ {"refresh"}
    ELSE {"job:read", "job:write", "queue:read", "queue:write", "project:read"}

\* get_user_permissions of AuthorizationService: not quite the same table.
RolePermissions(u) ==
    IF u.role = "Admin"
    THEN Permission \ {"refresh"}
    ELSE {"job:read", "job:write", "queue:read", "project:read"}

\* generate_token, generate_refresh_token, generate_token_for_api_key.
Token(sub, org, ps, scope, life) ==
    [sub |-> sub, org |-> org, exp |-> now + life, iat |-> now,
     permissions |-> ps, scope |-> scope]

\* Mutant of Validates: the time of expiry is not looked at.
ValidatesAlways(c, t) == TRUE

\* validate_token and validate_refresh_token, at time t: the library adds its
\* leeway to the time of expiry.  The tokens name no issuer, and it asks for
\* one only when they do.
Validates(c, t) == c.exp + Leeway >= t

HasTokenPermission(c, p) == p \in c.permissions

Room(set) == Cardinality(set) < MaxTokens

Idle ==
    Cardinality(renewals) + Cardinality(issues) + Cardinality(requests) < MaxCalls

\* A client may lose a token at any time.
Forget ==
    /\ \/ \E t \in tokens : tokens' = tokens \ {t} /\ UNCHANGED refreshes
       \/ \E c \in refreshes : refreshes' = refreshes \ {c} /\ UNCHANGED tokens
    /\ UNCHANGED <<users, renewals, issues, requests, now, held>>

-----------------------------------------------------------------------------
\* The row of u has been read, for a login or for a refresh.
ReadFor(u, org, login) ==
    /\ issues' = issues \cup {[sub |-> u, org |-> org, row |-> users[u],
                               read |-> now, login |-> login]}
    /\ UNCHANGED <<users, tokens, refreshes, requests, now, held>>

\* authenticate_user reads the user; the password is compared next.
AuthenticateUser(u) ==
    /\ Idle
    /\ ReadFor(u, users[u].organization_id, TRUE)
    /\ UNCHANGED renewals

\* refresh_token: the token is validated, then the user is read anew.  The
\* organization is still that of the old token.
BeginRefresh(c) ==
    /\ Idle
    /\ Validates(c, now)
    /\ renewals' = renewals \cup {c}
    /\ UNCHANGED <<users, tokens, refreshes, issues, requests, now, held>>

ReadUser(c) ==
    /\ renewals' = renewals \ {c}
    /\ \/ c.sub \in Users /\ ReadFor(c.sub, c.org, FALSE)
       \/ UNCHANGED <<users, tokens, refreshes, issues, requests, now, held>>

IssuedTokens(i) ==
    /\ tokens' = tokens \cup
         {[claims |-> Token(i.sub, i.org, GetUserPermissions(i.row), "access", TokenLife),
           row |-> i.row, read |-> i.read]}
    /\ IF i.login
       THEN /\ Room(refreshes)
            /\ refreshes' = refreshes \cup
                 {Token(i.sub, i.org, {"refresh"}, "refresh", RefreshLife)}
       ELSE UNCHANGED refreshes

\* Mutant of IssueTokens: nobody asks whether the user is active.
IssueToAnybody(i) ==
    /\ Room(tokens)
    /\ IssuedTokens(i)
    /\ issues' = issues \ {i}
    /\ UNCHANGED <<users, renewals, requests, now, held>>

\* The password was right and the user is active, in the copy.
IssueTokens(i) ==
    /\ i.row.is_active
    /\ Room(tokens)
    /\ IssuedTokens(i)
    /\ issues' = issues \ {i}
    /\ UNCHANGED <<users, renewals, requests, now, held>>

\* The password was wrong, the user is not active, or a step failed.
RefuseToken(i) ==
    /\ issues' = issues \ {i}
    /\ UNCHANGED <<users, tokens, refreshes, renewals, requests, now, held>>

\* authenticate_api_key, for a key that is active and has not expired.
AuthenticateApiKey(a) ==
    /\ Room(tokens)
    /\ \E org \in Orgs :
          tokens' = tokens \cup
            {[claims |-> Token(a, org, KeyPermissions[a], "api_key", TokenLife),
              row |-> NoRow, read |-> now]}
    /\ UNCHANGED <<users, refreshes, renewals, issues, requests, now, held>>

-----------------------------------------------------------------------------
\* check_user_permission: by the user's row; an inactive user passes, too.
CheckUserPermission(u, org, p) ==
    /\ users[u].organization_id = org
    /\ p \in RolePermissions(users[u])

\* What authenticate_and_authorize decides when it reads the user.
WouldGrant(c, p) ==
    /\ c.sub \in Users
    /\ users[c.sub].is_active
    /\ users[c.sub].organization_id = c.org
    /\ HasTokenPermission(c, p)

\* authenticate_and_authorize: the token is validated, then the user is read.
BeginAuthorize(t, p) ==
    /\ Idle
    /\ Validates(t.claims, now)
    /\ requests' = requests \cup {[token |-> t, permission |-> p, at |-> now]}
    /\ UNCHANGED <<users, tokens, refreshes, renewals, issues, now, held>>

EndAuthorize(r) ==
    /\ requests' = requests \ {r}
    /\ UNCHANGED <<users, tokens, refreshes, renewals, issues, now, held>>

-----------------------------------------------------------------------------
\* The permissions of the roles that users are active in at time t are held
\* at time t.
Holding(us, t) ==
    [u \in Users |-> [o \in Orgs |-> [p \in Permission |->
        IF /\ us[u].is_active
           /\ us[u].organization_id = o
           /\ p \in GetUserPermissions(us[u])
        THEN t + 1 ELSE held[u][o][p]]]]

\* Users change role or organization, are deactivated and activated.
ChangeUser(u, r) ==
    /\ users' = [users EXCEPT ![u] = r]
    /\ held' = Holding(users', now)
    /\ UNCHANGED <<tokens, refreshes, renewals, issues, requests, now>>

Tick ==
    /\ now < MaxTime
    /\ now' = now + 1
    /\ held' = Holding(users, now')
    /\ UNCHANGED <<users, tokens, refreshes, renewals, issues, requests>>

AuthInit ==
    /\ users \in [Users -> {NewUser(o, r) : o \in Orgs, r \in UserRole}]
    /\ tokens = {}
    /\ refreshes = {}
    /\ renewals = {}
    /\ issues = {}
    /\ requests = {}
    /\ now = 0
    /\ held = [u \in Users |-> [o \in Orgs |-> [p \in Permission |->
                  IF users[u].organization_id = o /\ p \in GetUserPermissions(users[u])
                  THEN 1 ELSE 0]]]

AuthNext ==
    \/ \E u \in Users : AuthenticateUser(u)
    \/ \E c \in refreshes : BeginRefresh(c)
    \/ \E c \in renewals : ReadUser(c)
    \/ \E i \in issues : IssueTokens(i) \/ RefuseToken(i)
    \/ \E a \in ApiKeys : AuthenticateApiKey(a)
    \/ \E t \in tokens, p \in Asked : BeginAuthorize(t, p)
    \/ \E r \in requests : EndAuthorize(r)
    \/ \E u \in Users, r \in UserRow(Orgs) : ChangeUser(u, r)
    \/ Forget
    \/ Tick

AuthSpec == AuthInit /\ [][AuthNext]_authVars

-----------------------------------------------------------------------------
(***************************************************************************)
(* Properties                                                              *)
(***************************************************************************)

\* Rows, claims and times are what they are; nothing is held in the future.
AuthTypeOK ==
    /\ users \in [Users -> UserRow(Orgs)]
    /\ tokens \subseteq AccessToken
    /\ refreshes \subseteq Claims
    /\ renewals \subseteq Claims
    /\ issues \subseteq Issue
    /\ requests \subseteq Request
    /\ now \in Nat
    /\ held \in [Users -> [Orgs -> [Permission -> Nat]]]

\* Who is active holds the permissions of his role now.
HeldNow ==
    \A u \in Users : users[u].is_active =>
        \A p \in GetUserPermissions(users[u]) :
            held[u][users[u].organization_id][p] = now + 1

\* What was read of an active user at time t was his then: u held the
\* permissions of row r, in its organization, at t or later.
WasHeld(u, r, t) ==
    r.is_active => \A p \in GetUserPermissions(r) : held[u][r.organization_id][p] >= t + 1

\* An access token lives as long as it should, and says what was read.
MadeRightly(t) ==
    /\ t.claims.exp = t.claims.iat + TokenLife
    /\ t.read <= t.claims.iat
    /\ t.claims.sub \in Users =>
          /\ t.row \in UserRow(Orgs) /\ t.row.is_active
          /\ t.claims.permissions = GetUserPermissions(t.row)
          /\ WasHeld(t.claims.sub, t.row, t.read)

TokensInv ==
    /\ \A i \in issues : i.read <= now /\ WasHeld(i.sub, i.row, i.read)
    /\ \A t \in tokens : MadeRightly(t)
    /\ \A r \in requests : MadeRightly(r.token) /\ Validates(r.token.claims, r.at)

\* The permissions in a user's access token were his, while he was active and
\* when his row was read for it, however users change until the token is made
\* and after.  They were his in the organization he belonged to then, which
\* after a refresh need not be the one the token names: that is the one of the
\* login (authentication_service.rs:293 and 307).
TokensWereTrue ==
    \A t \in tokens : t.claims.sub \in Users =>
        \A p \in t.claims.permissions :
            held[t.claims.sub][t.row.organization_id][p] >= t.read + 1

\* A permission that a token is granted was the user's, in some organization,
\* no longer ago than a token lives, leeway and the time to make the token
\* included: tokens are not looked up, and refresh_token renews one with the
\* permissions of the day (authentication_service.rs:298,
\* authorization_service.rs:249).  The organization need not be the one it is
\* granted in: see TokensWereTrue.
GrantsAreRecent ==
    \A r \in requests :
        LET c == r.token.claims IN
        WouldGrant(c, r.permission) =>
            \E o \in Orgs :
                held[c.sub][o][r.permission] - 1
                    + (c.iat - r.token.read) + TokenLife + Leeway >= r.at

\* While the user's row is the one that his token was made from, he is granted
\* the same by his token and by check_user_permission, but for worker:read,
\* which every token has (authentication_service.rs:257) and the row of a
\* member has not (authorization_service.rs:195).  With any other row, such as
\* an inactive one, which only check_user_permission lets pass
\* (authorization_service.rs:19 and 239), the two may differ.
TokensFollowRows ==
    \A t \in tokens, p \in Permission :
        LET c == t.claims IN
        c.sub \in Users /\ users[c.sub] = t.row =>
            (WouldGrant(c, p) <=> \/ CheckUserPermission(c.sub, c.org, p)
                                  \/ /\ p = "worker:read"
                                     /\ CanAccessOrganization(users[c.sub], c.org))
=============================================================================
