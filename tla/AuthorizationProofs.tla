------------------------ MODULE AuthorizationProofs ------------------------
(***************************************************************************)
(* Theorems about tokens and about access to resources, for every value of *)
(* the constants: any number of users, tokens, projects, queues and jobs.  *)
(***************************************************************************)
EXTENDS Authentication, Authorization, TLAPS

-----------------------------------------------------------------------------
(***************************************************************************)
(* Users, tokens and what they say.                                        *)
(***************************************************************************)

\* The permissions of a role are permissions.
LEMMA PermissionsType ==
    ASSUME NEW u
    PROVE  GetUserPermissions(u) \subseteq Permission
  BY DEF GetUserPermissions, Permission

\* What generate_token makes is a token of the present.
LEMMA TokenType ==
    ASSUME AuthTypeOK, NEW s \in Users \cup ApiKeys, NEW o \in Orgs,
           NEW ps \in SUBSET Permission,
           NEW sc \in {"access", "refresh", "api_key"}, NEW life \in Nat
    PROVE  /\ Token(s, o, ps, sc, life) \in Claims
           /\ Token(s, o, ps, sc, life).exp = now + life
           /\ Token(s, o, ps, sc, life).iat = now
           /\ Token(s, o, ps, sc, life).sub = s
           /\ Token(s, o, ps, sc, life).permissions = ps
  BY DEF Token, Claims, AuthTypeOK

\* What is held stays held.
HeldGrows ==
    \A u \in Users, o \in Orgs, p \in Permission : held[u][o][p] <= held'[u][o][p]

\* What is held grows, to the present, when a user is changed or the clock
\* goes on.
LEMMA HoldingGrows ==
    ASSUME AuthTypeOK, NEW us \in [Users -> UserRow(Orgs)], NEW t \in Nat, now <= t,
           \A u \in Users, o \in Orgs, p \in Permission : held[u][o][p] <= now + 1,
           users' = us, now' = t, held' = Holding(us, t)
    PROVE  /\ held' \in [Users -> [Orgs -> [Permission -> Nat]]]
           /\ \A u \in Users, o \in Orgs, p \in Permission : held'[u][o][p] <= now' + 1
           /\ HeldGrows
           /\ HeldNow'
<1>1. /\ now \in Nat
      /\ \A u \in Users, o \in Orgs, p \in Permission :
            held[u][o][p] \in Nat /\ held[u][o][p] <= now + 1
  BY DEF AuthTypeOK
<1>2. \A u \in Users, o \in Orgs, p \in Permission :
         held'[u][o][p] = IF /\ us[u].is_active
                             /\ us[u].organization_id = o
                             /\ p \in GetUserPermissions(us[u])
                          THEN t + 1 ELSE held[u][o][p]
  BY DEF Holding
<1>3. held' \in [Users -> [Orgs -> [Permission -> Nat]]]
  BY <1>1 DEF Holding
<1>4. \A u \in Users, o \in Orgs, p \in Permission :
         held[u][o][p] <= held'[u][o][p] /\ held'[u][o][p] <= t + 1
  BY <1>1, <1>2
<1>5. \A u \in Users : us[u].organization_id \in Orgs
  BY DEF UserRow
<1>6. HeldNow'
  BY <1>2, <1>5, PermissionsType DEF HeldNow
<1>7. QED
  BY <1>3, <1>4, <1>6 DEF HeldGrows

\* The tokens part of the invariant: types, and a history that is true.
HistoryOK ==
    /\ AuthTypeOK
    /\ HeldNow
    /\ \A u \in Users, o \in Orgs, p \in Permission : held[u][o][p] <= now + 1

\* What is to be shown of a step.
HistoryGoesOn == HistoryOK' /\ HeldGrows /\ now <= now'

\* A step that changes no user, and not the clock, keeps the history.
LEMMA HistoryKept ==
    ASSUME HistoryOK, UNCHANGED <<users, now, held>>, tokens' \subseteq AccessToken,
           refreshes' \subseteq Claims, renewals' \subseteq Claims,
           issues' \subseteq Issue, requests' \subseteq Request
    PROVE  HistoryOK' /\ HeldGrows /\ now <= now'
<1>1. now \in Nat /\ held \in [Users -> [Orgs -> [Permission -> Nat]]]
  BY DEF HistoryOK, AuthTypeOK
<1>2. HeldGrows
  BY <1>1 DEF HeldGrows
<1>3. QED
  BY <1>1, <1>2 DEF HistoryOK, AuthTypeOK, HeldNow

\* The row that is read for a token.
LEMMA ReadRowType ==
    ASSUME AuthTypeOK, NEW u \in Users, NEW o \in Orgs, NEW b \in BOOLEAN,
           ReadFor(u, o, b)
    PROVE  /\ issues' \subseteq Issue
           /\ UNCHANGED <<users, tokens, refreshes, requests, now, held>>
  BY DEF ReadFor, Issue, AuthTypeOK

\* The tokens that are made from a row that was read.
LEMMA IssuedType ==
    ASSUME AuthTypeOK, NEW i \in issues, IssuedTokens(i)
    PROVE  tokens' \subseteq AccessToken /\ refreshes' \subseteq Claims
<1> DEFINE c == Token(i.sub, i.org, GetUserPermissions(i.row), "access", TokenLife)
           f == Token(i.sub, i.org, {"refresh"}, "refresh", RefreshLife)
<1>1. i.sub \in Users /\ i.org \in Orgs /\ i.row \in UserRow(Orgs) /\ i.read \in Nat
  BY DEF AuthTypeOK, Issue
<1>2. {"refresh"} \in SUBSET Permission /\ TokenLife \in Nat /\ RefreshLife \in Nat
  BY AuthenticationAssumption DEF Permission
<1>3. c \in Claims /\ f \in Claims
  BY <1>1, <1>2, TokenType, PermissionsType
<1>4. /\ tokens' = tokens \cup {[claims |-> c, row |-> i.row, read |-> i.read]}
      /\ refreshes' = refreshes \cup {f} \/ refreshes' = refreshes
  BY DEF IssuedTokens
<1> HIDE DEF c, f
<1>5. [claims |-> c, row |-> i.row, read |-> i.read] \in AccessToken
  BY <1>1, <1>3 DEF AccessToken
<1>6. QED
  BY <1>3, <1>4, <1>5 DEF AuthTypeOK

\* A step keeps the types and the history, and time does not go back.
LEMMA HistoryStays ==
    ASSUME HistoryOK, [AuthNext]_authVars
    PROVE  HistoryGoesOn
<1>1. /\ AuthTypeOK /\ now \in Nat
      /\ \A u \in Users : users[u].organization_id \in Orgs
  BY DEF HistoryOK, AuthTypeOK, UserRow
<1>2. ASSUME NEW u \in Users, AuthenticateUser(u)
      PROVE  HistoryGoesOn
  BY <1>1, <1>2, ReadRowType, HistoryKept DEF HistoryGoesOn, AuthenticateUser, AuthTypeOK
<1>3. ASSUME NEW c \in refreshes, BeginRefresh(c)
      PROVE  HistoryGoesOn
  BY <1>1, <1>3, HistoryKept DEF HistoryGoesOn, BeginRefresh, AuthTypeOK
<1>4. ASSUME NEW c \in renewals, ReadUser(c)
      PROVE  HistoryGoesOn
  <2>1. renewals' \subseteq Claims /\ c.org \in Orgs
    BY <1>1, <1>4 DEF ReadUser, AuthTypeOK, Claims
  <2>2. CASE c.sub \in Users /\ ReadFor(c.sub, c.org, FALSE)
    BY <1>1, <2>1, <2>2, ReadRowType, HistoryKept DEF HistoryGoesOn, AuthTypeOK
  <2>3. CASE UNCHANGED <<users, tokens, refreshes, issues, requests, now, held>>
    BY <1>1, <2>1, <2>3, HistoryKept DEF HistoryGoesOn, AuthTypeOK
  <2>4. QED
    BY <1>4, <2>2, <2>3 DEF ReadUser
<1>5. ASSUME NEW i \in issues, IssueTokens(i)
      PROVE  HistoryGoesOn
  BY <1>1, <1>5, IssuedType, HistoryKept DEF HistoryGoesOn, IssueTokens, AuthTypeOK
<1>6. ASSUME NEW i \in issues, RefuseToken(i)
      PROVE  HistoryGoesOn
  BY <1>1, <1>6, HistoryKept DEF HistoryGoesOn, RefuseToken, AuthTypeOK
<1>7. ASSUME NEW a \in ApiKeys, AuthenticateApiKey(a)
      PROVE  HistoryGoesOn
  <2>1. PICK o \in Orgs :
           tokens' = tokens \cup
             {[claims |-> Token(a, o, KeyPermissions[a], "api_key", TokenLife),
               row |-> NoRow, read |-> now]}
    BY <1>7 DEF AuthenticateApiKey
  <2>2. Token(a, o, KeyPermissions[a], "api_key", TokenLife) \in Claims
    BY <1>1, TokenType, AuthenticationAssumption
  <2>3. [claims |-> Token(a, o, KeyPermissions[a], "api_key", TokenLife),
         row |-> NoRow, read |-> now] \in AccessToken
    BY <1>1, <2>2 DEF AccessToken
  <2>4. QED
    BY <1>1, <1>7, <2>1, <2>3, HistoryKept DEF HistoryGoesOn, AuthenticateApiKey, AuthTypeOK
<1>8. ASSUME NEW t \in tokens, NEW p \in Asked, BeginAuthorize(t, p)
      PROVE  HistoryGoesOn
  <2>1. [token |-> t, permission |-> p, at |-> now] \in Request
    BY <1>1, AuthenticationAssumption DEF Request, AuthTypeOK
  <2>2. QED
    BY <1>1, <1>8, <2>1, HistoryKept DEF HistoryGoesOn, BeginAuthorize, AuthTypeOK
<1>9. ASSUME NEW r \in requests, EndAuthorize(r)
      PROVE  HistoryGoesOn
  BY <1>1, <1>9, HistoryKept DEF HistoryGoesOn, EndAuthorize, AuthTypeOK
<1>10. ASSUME NEW u \in Users, NEW r \in UserRow(Orgs), ChangeUser(u, r)
       PROVE  HistoryGoesOn
  <2>1. /\ users' \in [Users -> UserRow(Orgs)]
        /\ held' = Holding(users', now) /\ now' = now
        /\ UNCHANGED <<tokens, refreshes, renewals, issues, requests>>
    BY <1>1, <1>10 DEF ChangeUser, AuthTypeOK
  <2>2. now <= now
    BY <1>1
  <2>3. QED
    BY <1>1, <2>1, <2>2, HoldingGrows DEF HistoryGoesOn, HistoryOK, AuthTypeOK
<1>11. CASE Tick
  <2>1. /\ users \in [Users -> UserRow(Orgs)] /\ users' = users
        /\ held' = Holding(users, now + 1) /\ now' = now + 1
        /\ UNCHANGED <<tokens, refreshes, renewals, issues, requests>>
    BY <1>1, <1>11 DEF Tick, AuthTypeOK
  <2>2. now <= now + 1 /\ now + 1 \in Nat
    BY <1>1
  <2>3. QED
    BY <1>1, <2>1, <2>2, HoldingGrows DEF HistoryGoesOn, HistoryOK, AuthTypeOK
<1>12. CASE Forget
  BY <1>1, <1>12, HistoryKept DEF HistoryGoesOn, Forget, AuthTypeOK
<1>13. CASE UNCHANGED authVars
  BY <1>1, <1>13, HistoryKept DEF HistoryGoesOn, authVars, AuthTypeOK
<1>14. CASE AuthNext
  BY <1>2, <1>3, <1>4, <1>5, <1>6, <1>7, <1>8, <1>9, <1>10, <1>11, <1>12, <1>14
     DEF AuthNext
<1>15. QED
  BY <1>13, <1>14

\* What was a user's once stays so in the history.
LEMMA WasHeldStays ==
    ASSUME AuthTypeOK, AuthTypeOK', HeldGrows, NEW u \in Users,
           NEW r \in UserRow(Orgs), NEW t \in Nat, WasHeld(u, r, t)
    PROVE  WasHeld(u, r, t)'
<1>1. r.organization_id \in Orgs /\ GetUserPermissions(r) \subseteq Permission
  BY PermissionsType DEF UserRow
<1>2. \A p \in Permission : /\ held[u][r.organization_id][p] \in Nat
                            /\ held'[u][r.organization_id][p] \in Nat
                            /\ held[u][r.organization_id][p] <= held'[u][r.organization_id][p]
  BY <1>1 DEF AuthTypeOK, HeldGrows
<1>3. \A p \in GetUserPermissions(r) : held[u][r.organization_id][p] >= t + 1
         => held'[u][r.organization_id][p] >= t + 1
  BY <1>1, <1>2
<1>4. QED
  BY <1>3 DEF WasHeld

\* A token that was made rightly stays so.
LEMMA RightlyForever ==
    ASSUME AuthTypeOK, AuthTypeOK', HeldGrows, NEW t \in AccessToken, MadeRightly(t)
    PROVE  MadeRightly(t)'
  BY WasHeldStays DEF MadeRightly, AccessToken

\* Rows are read as they are.
LEMMA ReadsAreTrue ==
    ASSUME HistoryOK, [AuthNext]_authVars, NEW i \in issues', i \notin issues
    PROVE  i.sub \in Users /\ i.read = now /\ WasHeld(i.sub, i.row, i.read)
<1>1. ASSUME NEW u \in Users, NEW o, NEW b, ReadFor(u, o, b)
      PROVE  i.sub = u /\ i.row = users[u] /\ i.read = now
  BY <1>1 DEF ReadFor
<1>2. \E u \in Users : i.sub = u /\ i.row = users[u] /\ i.read = now
  BY <1>1 DEF AuthNext, authVars, AuthenticateUser, BeginRefresh, ReadUser,
       IssueTokens, RefuseToken, AuthenticateApiKey, BeginAuthorize, EndAuthorize,
       ChangeUser, Tick, Forget
<1>3. PICK u \in Users : i.sub = u /\ i.row = users[u] /\ i.read = now
  BY <1>2
<1>4. now \in Nat /\ users[u].is_active =>
        \A p \in GetUserPermissions(users[u]) :
            held[u][users[u].organization_id][p] >= now + 1
  BY DEF HistoryOK, AuthTypeOK, HeldNow
<1>5. now \in Nat
  BY DEF HistoryOK, AuthTypeOK
<1>6. QED
  BY <1>3, <1>4, <1>5 DEF WasHeld

\* Tokens are only made rightly.
LEMMA NewTokensAreRight ==
    ASSUME HistoryOK, TokensInv, [AuthNext]_authVars,
           NEW t \in tokens', t \notin tokens
    PROVE  MadeRightly(t)
<1>1. /\ AuthTypeOK /\ now \in Nat /\ TokenLife \in Nat
  BY AuthenticationAssumption DEF HistoryOK, AuthTypeOK
<1>2. ASSUME NEW i \in issues, IssueTokens(i)
      PROVE  MadeRightly(t)
  <2> DEFINE c == Token(i.sub, i.org, GetUserPermissions(i.row), "access", TokenLife)
  <2>1. t = [claims |-> c, row |-> i.row, read |-> i.read] /\ i.row.is_active
    BY <1>2 DEF IssueTokens, IssuedTokens
  <2>2. i.sub \in Users /\ i.org \in Orgs /\ i.row \in UserRow(Orgs) /\ i.read \in Nat
    BY <1>1 DEF AuthTypeOK, Issue
  <2>3. /\ c.exp = now + TokenLife /\ c.iat = now /\ c.sub = i.sub
        /\ c.permissions = GetUserPermissions(i.row)
    BY DEF Token
  <2>4. i.read <= now /\ WasHeld(i.sub, i.row, i.read)
    BY DEF TokensInv
  <2> HIDE DEF c
  <2>5. t.claims = c /\ t.row = i.row /\ t.read = i.read
    BY <2>1
  <2>6. QED
    BY <2>1, <2>2, <2>3, <2>4, <2>5 DEF MadeRightly
<1>3. ASSUME NEW a \in ApiKeys, AuthenticateApiKey(a)
      PROVE  MadeRightly(t)
  <2>1. PICK o \in Orgs :
           t = [claims |-> Token(a, o, KeyPermissions[a], "api_key", TokenLife),
                row |-> NoRow, read |-> now]
    BY <1>3 DEF AuthenticateApiKey
  <2>2. a \notin Users /\ KeyPermissions[a] \in SUBSET Permission
    BY AuthenticationAssumption
  <2> DEFINE c == Token(a, o, KeyPermissions[a], "api_key", TokenLife)
  <2>3. c.exp = now + TokenLife /\ c.iat = now /\ c.sub = a
    BY <1>1, <2>2, TokenType
  <2> HIDE DEF c
  <2>4. t.claims = c /\ t.read = now
    BY <2>1 DEF c
  <2>5. QED
    BY <1>1, <2>2, <2>3, <2>4 DEF MadeRightly
<1>4. QED
  BY <1>2, <1>3 DEF AuthNext, authVars, AuthenticateUser, ReadFor, BeginRefresh,
       ReadUser, RefuseToken, BeginAuthorize, EndAuthorize, ChangeUser, Tick, Forget

\* A request goes on with a token in circulation that has not expired.
LEMMA RequestsAreRight ==
    ASSUME HistoryOK, TokensInv, [AuthNext]_authVars,
           NEW r \in requests', r \notin requests
    PROVE  MadeRightly(r.token) /\ Validates(r.token.claims, r.at)
<1>1. PICK t \in tokens, p \in Asked : BeginAuthorize(t, p)
  BY DEF AuthNext, authVars, AuthenticateUser, ReadFor, BeginRefresh, ReadUser,
       IssueTokens, RefuseToken, AuthenticateApiKey, EndAuthorize, ChangeUser,
       Tick, Forget
<1>2. r = [token |-> t, permission |-> p, at |-> now] /\ Validates(t.claims, now)
  BY <1>1 DEF BeginAuthorize
<1>3. QED
  BY <1>2 DEF TokensInv

LEMMA TokensStayRight ==
    ASSUME HistoryOK, TokensInv, [AuthNext]_authVars
    PROVE  HistoryOK' /\ TokensInv'
<1>1. HistoryOK' /\ HeldGrows /\ now <= now'
  BY HistoryStays DEF HistoryGoesOn
<1>2. AuthTypeOK /\ AuthTypeOK' /\ now \in Nat /\ now' \in Nat
  BY <1>1 DEF HistoryOK, AuthTypeOK
<1>3. ASSUME NEW i \in issues'
      PROVE  i.read <= now' /\ WasHeld(i.sub, i.row, i.read)'
  <2>1. i.sub \in Users /\ i.row \in UserRow(Orgs) /\ i.read \in Nat
    BY <1>2 DEF AuthTypeOK, Issue
  <2>2. i.read <= now /\ WasHeld(i.sub, i.row, i.read)
    BY <1>2, <2>1, ReadsAreTrue DEF TokensInv
  <2>3. WasHeld(i.sub, i.row, i.read)'
    BY <1>1, <1>2, <2>1, <2>2, WasHeldStays
  <2>4. QED
    BY <1>1, <1>2, <2>1, <2>2, <2>3
<1>4. ASSUME NEW t \in tokens'
      PROVE  MadeRightly(t)'
  <2>1. t \in AccessToken
    BY <1>2 DEF AuthTypeOK
  <2>2. MadeRightly(t)
    BY NewTokensAreRight DEF TokensInv
  <2>3. QED
    BY <1>1, <1>2, <2>1, <2>2, RightlyForever
<1>5. ASSUME NEW r \in requests'
      PROVE  MadeRightly(r.token)' /\ Validates(r.token.claims, r.at)
  <2>1. r.token \in AccessToken
    BY <1>2 DEF AuthTypeOK, Request
  <2>2. MadeRightly(r.token) /\ Validates(r.token.claims, r.at)
    BY RequestsAreRight DEF TokensInv
  <2>3. QED
    BY <1>1, <1>2, <2>1, <2>2, RightlyForever
<1>6. QED
  BY <1>1, <1>3, <1>4, <1>5 DEF TokensInv, Validates

\* The initial states.
LEMMA AuthStarts == AuthInit => HistoryOK /\ TokensInv
<1> SUFFICES ASSUME AuthInit PROVE HistoryOK /\ TokensInv
  OBVIOUS
<1>1. \A o \in Orgs, r \in UserRole : NewUser(o, r) \in UserRow(Orgs)
  BY DEF NewUser, UserRow
<1>2. users \in [Users -> UserRow(Orgs)] /\ now = 0
  BY <1>1 DEF AuthInit
<1>3. \A u \in Users, o \in Orgs, p \in Permission :
         held[u][o][p] = IF users[u].organization_id = o
                            /\ p \in GetUserPermissions(users[u])
                         THEN 1 ELSE 0
  BY DEF AuthInit
<1>4. held \in [Users -> [Orgs -> [Permission -> Nat]]]
  BY DEF AuthInit
<1>5. \A u \in Users : users[u].organization_id \in Orgs
  BY <1>2 DEF UserRow
<1>6. HeldNow
  BY <1>2, <1>3, <1>5, PermissionsType DEF HeldNow
<1>7. QED
  BY <1>2, <1>3, <1>4, <1>6 DEF AuthInit, HistoryOK, AuthTypeOK, TokensInv

LEMMA TokensAreRight == AuthSpec => [](HistoryOK /\ TokensInv)
  BY AuthStarts, TokensStayRight, PTL DEF AuthSpec

\* Whatever users become after their row was read for it, and while it is
\* made, an access token of a user names no permission he had not at that
\* time, in the organization he was in then (authentication_service.rs:163,
\* 293 and 298).
THEOREM TokensTellTheTruth == AuthSpec => []TokensWereTrue
<1>1. HistoryOK /\ TokensInv => TokensWereTrue
  BY SMTT(30) DEF TokensInv, MadeRightly, WasHeld, TokensWereTrue
<1>2. QED
  BY <1>1, TokensAreRight, PTL

\* A permission that authenticate_and_authorize grants was the user's, in some
\* organization, at most one life of a token, the leeway and the time it took
\* to make the token before: for every life and leeway, and however long the
\* user's row is read after the token (authorization_service.rs:249).
THEOREM GrantsAreNeverOld == AuthSpec => []GrantsAreRecent
<1>1. HistoryOK /\ TokensInv => GrantsAreRecent
  <2> SUFFICES ASSUME HistoryOK, TokensInv, NEW r \in requests,
                      WouldGrant(r.token.claims, r.permission)
               PROVE  \E o \in Orgs :
                         held[r.token.claims.sub][o][r.permission] - 1
                           + (r.token.claims.iat - r.token.read)
                           + TokenLife + Leeway >= r.at
    BY DEF GrantsAreRecent
  <2> DEFINE t == r.token
             c == t.claims
             o == t.row.organization_id
  <2>1. t \in AccessToken /\ r.at \in Nat /\ r.permission \in Permission
    BY DEF HistoryOK, AuthTypeOK, Request
  <2>2. MadeRightly(t) /\ Validates(c, r.at)
    BY DEF TokensInv
  <2>3. c \in Claims /\ t.read \in Nat
    BY <2>1 DEF AccessToken
  <2>4. c.sub \in Users /\ r.permission \in c.permissions
    BY DEF WouldGrant, HasTokenPermission
  <2>5. o \in Orgs /\ held[c.sub][o][r.permission] >= t.read + 1
    BY <2>2, <2>4 DEF MadeRightly, WasHeld, UserRow
  <2>6. held[c.sub][o][r.permission] \in Nat
    BY <2>1, <2>4, <2>5 DEF HistoryOK, AuthTypeOK
  <2>7. c.exp = c.iat + TokenLife /\ c.exp + Leeway >= r.at
    BY <2>2 DEF MadeRightly, Validates
  <2>8. c.iat \in Nat /\ c.exp \in Nat /\ TokenLife \in Nat /\ Leeway \in Nat
    BY <2>3, AuthenticationAssumption DEF Claims
  <2> HIDE DEF t, c, o
  <2> DEFINE h == held[c.sub][o][r.permission]
  <2>9. h - 1 + (c.iat - t.read) + TokenLife + Leeway >= r.at
    <3> HIDE DEF h
    <3>1. h \in Nat /\ h >= t.read + 1
      BY <2>5, <2>6 DEF h
    <3>2. QED
      BY <2>1, <2>3, <2>7, <2>8, <3>1
  <2>10. QED
    BY <2>5, <2>9 DEF t, c, o
<1>2. QED
  BY <1>1, TokensAreRight, PTL

\* As long as the user's row is the one his token was made from, token and row
\* grant him the same, but for worker:read (authentication_service.rs:257,
\* authorization_service.rs:195 and 239).
THEOREM TokensGrantLikeRows == AuthSpec => []TokensFollowRows
<1>1. HistoryOK /\ TokensInv => TokensFollowRows
  <2> SUFFICES ASSUME HistoryOK, TokensInv, NEW t \in tokens, NEW p \in Permission,
                      NEW c, c = t.claims,
                      c.sub \in Users, users[c.sub] = t.row
               PROVE  WouldGrant(c, p) <=>
                         \/ CheckUserPermission(c.sub, c.org, p)
                         \/ /\ p = "worker:read"
                            /\ CanAccessOrganization(users[c.sub], c.org)
    BY DEF TokensFollowRows
  <2>1. /\ t.row \in UserRow(Orgs) /\ t.row.is_active
        /\ c.permissions = GetUserPermissions(t.row)
    BY DEF TokensInv, MadeRightly
  <2>2. t.row.role \in {"Admin", "Member"}
    BY <2>1 DEF UserRow, UserRole
  <2>3. p \in GetUserPermissions(t.row) <=> p \in RolePermissions(t.row) \/ p = "worker:read"
    BY <2>2 DEF GetUserPermissions, RolePermissions, Permission
  <2>4. QED
    BY <2>1, <2>3 DEF WouldGrant, HasTokenPermission, CheckUserPermission,
                      CanAccessOrganization
<1>2. QED
  BY <1>1, TokensAreRight, PTL

-----------------------------------------------------------------------------
(***************************************************************************)
(* Resources: what the rows say, and what others may do to them.           *)
(***************************************************************************)

\* Whose a job, a queue or a worker is.
LEMMA Belonging ==
    ASSUME AccessTypeOK, NEW o
    PROVE  /\ \A q \in QueueIds : Verdict(o, q) = "granted"
                 <=> q \in there /\ ProjectOrg[QueueProject[q]] = o
           /\ \A w \in WorkerIds : Verdict(o, w) = "granted"
                 <=> w \in there /\ ProjectOrg[WorkerProject[w]] = o
           /\ \A j \in JobIds : Verdict(o, j) = "granted"
                 <=> /\ jobQueue[j] \in there \cap QueueIds
                     /\ ProjectOrg[QueueProject[jobQueue[j]]] = o
<1>1. \A p : Compared(p, o) = "granted" <=> ProjectOrg[p] = o
  BY DEF Compared
<1>2. \A j \in JobIds : jobQueue[j] \in there => jobQueue[j] \in QueueIds
  BY AuthorizationAssumption DEF AccessTypeOK, Rows
<1>3. \A x \in QueueIds \cup WorkerIds : x \notin JobIds /\ x \notin Projects
  BY AuthorizationAssumption
<1>4. \A q \in QueueIds : ProjectOf(q) = QueueProject[q]
  BY DEF ProjectOf
<1>5. \A w \in WorkerIds : ProjectOf(w) = WorkerProject[w]
  BY AuthorizationAssumption DEF ProjectOf
<1>6. \A j \in JobIds : j \notin Projects
  BY AuthorizationAssumption
<1>7. \A x \in QueueIds \cup WorkerIds :
         Verdict(o, x) = IF x \in there THEN Compared(ProjectOf(x), o) ELSE "missing"
  BY <1>3 DEF Verdict
<1>8. \A j \in JobIds :
         Verdict(o, j) = IF jobQueue[j] \in there
                         THEN Compared(ProjectOf(jobQueue[j]), o) ELSE "missing"
  BY <1>6 DEF Verdict
<1>9. QED
  BY <1>1, <1>2, <1>4, <1>5, <1>7, <1>8

\* A verdict, and the organization of a call, depend on nothing but the tables.
LEMMA TablesDecide ==
    ASSUME UNCHANGED tables
    PROVE  /\ \A o, x : Verdict(o, x)' = Verdict(o, x)
           /\ \A o : BelongsTo(o)' = BelongsTo(o)
           /\ \A k : OrgOf(k)' = OrgOf(k)
<1>1. /\ \A o, x : Verdict(o, x)' = Verdict(o, x)
      /\ \A k : OrgOf(k)' = OrgOf(k)
  BY DEF tables, Verdict, OrgOf
<1>2. QED
  BY <1>1 DEF BelongsTo

\* The tables have their types.
TablesOK ==
    /\ home \in [Callers -> Organizations]
    /\ there \subseteq Rows
    /\ gone \subseteq Rows \ there
    /\ jobQueue \in [JobIds -> (QueueIds \cap (there \cup gone)) \cup {None}]
    /\ puts \subseteq [job : JobIds, queue : QueueIds \cap (there \cup gone)]

\* What a writer may have done, at most: it moved some jobs, or user v.
Written(moved, v) ==
    /\ there \cup gone \subseteq there' \cup gone'
    /\ gone \subseteq gone'
    /\ \A j \in JobIds : j \notin moved => jobQueue'[j] = jobQueue[j]
    /\ \A j \in JobIds : jobQueue'[j] # jobQueue[j] =>
          /\ jobQueue'[j] \in QueueIds
          /\ listing # {} /\ jobQueue'[j] \in gone' => j \in late'
    /\ \A u \in Callers : u # v => home'[u] = home[u]
    /\ late \subseteq late'
    /\ Meanwhile(moved, v)

\* A job that was being written that leaves everything else as it was.
Quiet ==
    UNCHANGED <<home, there, gone, jobQueue, walks, listing, reached, stayed, late>>

\* Writers keep the types of the tables, and do nothing but that.
LEMMA WritersWrite ==
    ASSUME TablesOK, WriterNext
    PROVE  TablesOK' /\ (Quiet \/ \E moved, v : Written(moved, v))
<1>1. ASSUME NEW x \in Rows, CreateRow(x)
      PROVE  TablesOK' /\ Written({}, None)
  BY <1>1 DEF CreateRow, TablesOK, Written
<1>2. ASSUME NEW x \in Rows, DeleteRow(x)
      PROVE  TablesOK' /\ Written({}, None)
  BY <1>2 DEF DeleteRow, TablesOK, Written
<1>3. ASSUME NEW j \in JobIds, NEW q \in QueueIds, LookUpQueue(j, q)
      PROVE  TablesOK' /\ Quiet
  BY <1>3 DEF LookUpQueue, TablesOK, Quiet
<1>4. ASSUME NEW x \in puts, PutJob(x)
      PROVE  TablesOK' /\ (Quiet \/ Written({x.job}, None))
  <2>1. x.job \in JobIds /\ x.queue \in QueueIds \cap (there \cup gone)
    BY DEF TablesOK
  <2>2. UNCHANGED <<home, there, gone>> /\ puts' \subseteq puts
    BY <1>4 DEF PutJob
  <2>3. CASE UNCHANGED <<jobQueue, walks, listing, reached, stayed, late>>
    BY <2>2, <2>3 DEF TablesOK, Quiet
  <2>4. CASE /\ jobQueue' = [jobQueue EXCEPT ![x.job] = x.queue]
             /\ late' = IF listing # {} /\ x.queue \in gone
                        THEN late \cup {x.job} ELSE late
             /\ Meanwhile({x.job}, None)
    <3>1. \A j \in JobIds : jobQueue'[j] = IF j = x.job THEN x.queue ELSE jobQueue[j]
      BY <2>1, <2>4 DEF TablesOK
    <3>2. jobQueue' \in [JobIds -> (QueueIds \cap (there \cup gone)) \cup {None}]
      BY <2>1, <2>4 DEF TablesOK
    <3>3. TablesOK'
      BY <2>2, <3>2 DEF TablesOK
    <3>4. Written({x.job}, None)
      BY <2>1, <2>2, <2>4, <3>1 DEF Written
    <3>5. QED
      BY <3>3, <3>4
  <2>5. QED
    BY <1>4, <2>3, <2>4 DEF PutJob
<1>5. ASSUME NEW u \in Callers, NEW o \in Organizations, MoveUser(u, o)
      PROVE  TablesOK' /\ Written({}, u)
  BY <1>5 DEF MoveUser, TablesOK, Written
<1>6. QED
  BY <1>1, <1>2, <1>3, <1>4, <1>5 DEF WriterNext

-----------------------------------------------------------------------------
(***************************************************************************)
(* The walk from a resource to its organization.                           *)
(***************************************************************************)

\* A walk so far: on the way, and right if it has answered.
WalkOK(k) ==
    /\ k \in Walk
    /\ OnTheWay(k)
    /\ k.pc = "answered" =>
          \/ \E v \in k.seen : k.answer = Told(k.by, v)
          \/ k.moved /\ (k.by = "check" => k.answer = "missing")

\* A walk that goes on to row or project x, or answers.
Further(k, n) ==
    /\ n.by = k.by /\ n.caller = k.caller /\ n.org = k.org /\ n.asked = k.asked
    /\ n.seen = k.seen /\ n.moved = k.moved

\* A verdict is an answer.
LEMMA VerdictIsAnswer == \A o, x : Verdict(o, x) \in Answer
  BY DEF Verdict, Compared, Answer

\* The first step of a walk.
LEMMA WalkBegins ==
    ASSUME TablesOK, NEW by \in {"check", "can", "service"}, NEW u \in Callers,
           NEW o \in Organizations, NEW x \in Resources, BeginWalk(by, u, o, x),
           by # "check" => x \notin Projects /\ o = home[u]
    PROVE  \A k \in walks' : WalkOK(k)'
<1>0. PICK n : n = [by |-> by, caller |-> u, org |-> o, asked |-> x,
                    pc |-> FirstRow(x), at |-> x, answer |-> "missing",
                    seen |-> {Verdict(o, x)}, moved |-> FALSE]
  OBVIOUS
<1>1. /\ walks' = {n} /\ UNCHANGED tables
      /\ by # "check" => x \notin Projects /\ o = home[u]
  BY <1>0 DEF BeginWalk
<1>2. n \in Walk
  <2>1. FirstRow(x) \in {"job", "row", "project", "user", "answered"}
    BY DEF FirstRow
  <2>2. {Verdict(o, x)} \in SUBSET Answer /\ "missing" \in Answer
    BY VerdictIsAnswer DEF Answer
  <2>3. QED
    BY <1>0, <2>1, <2>2 DEF Walk
<1>3. /\ n.by = by /\ n.caller = u /\ n.org = o /\ n.asked = x /\ n.pc = FirstRow(x)
      /\ n.at = x /\ n.seen = {Verdict(o, x)} /\ n.moved = FALSE
  BY <1>0
<1>4. OrgOf(n) = o
  BY <1>1, <1>3 DEF OrgOf
<1>5. x \in Projects => Verdict(o, x) = Compared(x, o)
  BY AuthorizationAssumption DEF Verdict
<1>6. /\ FirstRow(x) = "job" => x \in JobIds
      /\ FirstRow(x) = "row" => x \in Rows /\ x \notin JobIds
      /\ FirstRow(x) \in {"project", "user"} => x \in Projects /\ FirstRow(x) = "project"
      /\ FirstRow(x) # "answered"
  BY DEF FirstRow, Resources
<1>7. /\ Verdict(OrgOf(n), n.asked)' \in n.seen
      /\ OrgOf(n)' = o
  BY <1>1, <1>3, <1>4, TablesDecide
<1>8. Compared(x, o)' = Compared(x, o)
  BY DEF Compared
<1>9. OnTheWay(n)'
  BY <1>1, <1>3, <1>5, <1>6, <1>7, <1>8 DEF OnTheWay
<1>10. QED
  BY <1>1, <1>2, <1>3, <1>6, <1>9 DEF WalkOK

\* A row that is read leads on, or gives the right answer.
LEMMA WalkGoesOn ==
    ASSUME TablesOK, NEW k \in walks, WalkOK(k),
           ReadJobRow(k) \/ ReadRow(k) \/ ReadProject(k) \/ ReadUserRow(k)
    PROVE  \A n \in walks' : WalkOK(n)'
<1>1. k \in Walk /\ OnTheWay(k)
  BY DEF WalkOK
<1>2. UNCHANGED tables
  BY DEF ReadJobRow, ReadRow, ReadProject, ReadUserRow, Answers, WalkOn
<1>3. \A n : Further(k, n) => /\ OrgOf(n)' = OrgOf(k)
                              /\ Verdict(OrgOf(n), n.asked)' \in n.seen
  BY <1>1, <1>2, TablesDecide DEF Further, OrgOf, OnTheWay
<1>4. \A p, o : Compared(p, o) \in Answer /\ Compared(p, o)' = Compared(p, o)
  BY DEF Compared, Answer
<1>5. ASSUME NEW a \in Answer, Answers(k, a),
             a \in k.seen \/ (k.moved /\ (k.by = "check" => a = "missing"))
      PROVE  \A n \in walks' : WalkOK(n)'
  <2>1. PICK told : told = Told(k.by, a)
    OBVIOUS
  <2>2. /\ told \in Answer
        /\ k.by = "check" => told = a
    BY <2>1 DEF Told, Answer
  <2> DEFINE n == [k EXCEPT !.pc = "answered", !.answer = told]
  <2>3. walks' = {n}
    BY <1>5, <2>1 DEF Answers, WalkOn
  <2>4. n \in Walk /\ Further(k, n) /\ n.pc = "answered" /\ n.answer = told
    BY <1>1, <2>2 DEF Walk, Further
  <2> HIDE DEF n
  <2>5. OnTheWay(n)'
    BY <1>3, <2>4 DEF OnTheWay
  <2>6. Told(n.by, a)' = Told(n.by, a) /\ Told(n.by, a) = told
    BY <2>1, <2>4 DEF Told, Further
  <2>7. \/ \E v \in n.seen : n.answer = Told(n.by, v)'
        \/ n.moved /\ (n.by = "check" => n.answer = "missing")
    BY <1>5, <2>4, <2>6, <2>2 DEF Further
  <2>8. QED
    BY <2>3, <2>4, <2>5, <2>7 DEF WalkOK
<1>6. CASE ReadJobRow(k)
  <2>1. k.pc = "job" /\ k.at = k.asked /\ k.asked \in JobIds /\ k.asked \notin Projects
    BY <1>1, <1>6, AuthorizationAssumption DEF ReadJobRow, OnTheWay
  <2> DEFINE q == jobQueue[k.at]
  <2>2. Verdict(OrgOf(k), k.asked) =
           (IF q \in there THEN Compared(ProjectOf(q), OrgOf(k)) ELSE "missing")
    BY <2>1 DEF Verdict
  <2>3. CASE q = None
    <3>1. Answers(k, "missing") /\ None \notin there
      BY <1>6, <2>3, AuthorizationAssumption DEF ReadJobRow, TablesOK, Rows
    <3>2. "missing" \in k.seen
      BY <1>1, <2>2, <2>3, <3>1 DEF OnTheWay
    <3>3. QED
      BY <1>5, <3>1, <3>2 DEF Answer
  <2>4. CASE q # None
    <3>0. PICK n : n = [k EXCEPT !.pc = "row", !.at = q]
      OBVIOUS
    <3>1. walks' = {n}
      BY <1>6, <2>4, <3>0 DEF ReadJobRow, WalkOn
    <3>2. q \in Rows /\ q \in there \cup gone
      BY <2>1, <2>4 DEF TablesOK, Rows
    <3>3. n \in Walk /\ Further(k, n) /\ n.pc = "row" /\ n.at = q
      BY <1>1, <3>0, <3>2 DEF Walk, Further, Resources
    <3>4. jobQueue'[k.asked] = q /\ there' = there /\ gone' = gone
      BY <1>2, <2>1 DEF tables
    <3>5. k.by = "check" => OrgOf(k) = k.org
      BY DEF OrgOf
    <3>6. k.by = "check" /\ q \in there => Compared(ProjectOf(q), k.org) \in k.seen
      BY <1>1, <2>2, <3>5 DEF OnTheWay
    <3>7. Compared(ProjectOf(q), k.org)' = Compared(ProjectOf(q), k.org)
      BY <1>2 DEF Compared, ProjectOf, tables
    <3> HIDE DEF q
    <3>8. OnTheWay(n)'
      BY <1>3, <2>1, <3>2, <3>3, <3>4, <3>6, <3>7 DEF OnTheWay, Further, Compared
    <3>9. QED
      BY <3>1, <3>3, <3>8 DEF WalkOK
  <2>5. QED
    BY <2>3, <2>4
<1>7. CASE ReadRow(k)
  <2>1. /\ k.pc = "row" /\ k.at \in Rows
        /\ k.asked \notin JobIds => k.at = k.asked
        /\ k.asked \in JobIds /\ ~k.moved => jobQueue[k.asked] = k.at
        /\ k.asked \in JobIds /\ k.by = "check" /\ k.at \in there =>
              Compared(ProjectOf(k.at), k.org) \in k.seen
    BY <1>1, <1>7 DEF ReadRow, OnTheWay
  <2>2. k.asked \notin Projects
    BY <2>1, <1>1, AuthorizationAssumption DEF Rows, Walk, Resources
  <2>3. k.asked \notin JobIds \/ ~k.moved =>
           Verdict(OrgOf(k), k.asked) =
              (IF k.at \in there THEN Compared(ProjectOf(k.at), OrgOf(k)) ELSE "missing")
    BY <2>1, <2>2 DEF Verdict
  <2>4. CASE k.at \notin there
    <3>1. Answers(k, "missing")
      BY <1>7, <2>4 DEF ReadRow
    <3>2. k.asked \notin JobIds \/ ~k.moved => "missing" \in k.seen
      BY <1>1, <2>3, <2>4 DEF OnTheWay
    <3>3. k.moved \in BOOLEAN
      BY <1>1 DEF Walk
    <3>4. QED
      BY <1>5, <3>1, <3>2, <3>3 DEF Answer
  <2>5. CASE k.at \in there
    <3> DEFINE p == ProjectOf(k.at)
               n == [k EXCEPT !.pc = "project", !.at = p]
    <3>1. walks' = {n}
      BY <1>7, <2>5 DEF ReadRow, WalkOn
    <3>2. p \in Projects
      BY <2>1, AuthorizationAssumption DEF ProjectOf, Rows
    <3>3. Compared(p, OrgOf(k)) \in k.seen \/ ~(k.by = "check" \/ ~k.moved)
      BY <1>1, <2>1, <2>3, <2>5 DEF OnTheWay, OrgOf
    <3> HIDE DEF p
    <3>4. n \in Walk /\ Further(k, n) /\ n.pc = "project" /\ n.at = p
      BY <1>1, <3>2 DEF Walk, Further, Resources
    <3> HIDE DEF n
    <3>5. OnTheWay(n)'
      BY <1>3, <3>2, <3>3, <3>4 DEF OnTheWay, Further, Compared
    <3>6. QED
      BY <3>1, <3>4, <3>5 DEF WalkOK
  <2>6. QED
    BY <2>4, <2>5
<1>8. CASE ReadProject(k)
  <2>1. /\ k.pc = "project" /\ k.at \in Projects
        /\ k.by = "check" \/ ~k.moved => Compared(k.at, OrgOf(k)) \in k.seen
    BY <1>1, <1>8 DEF ReadProject, OnTheWay
  <2>2. CASE k.by = "check"
    <3>1. Answers(k, Compared(k.at, k.org)) /\ OrgOf(k) = k.org
      BY <1>8, <2>2 DEF ReadProject, OrgOf
    <3>2. QED
      BY <1>4, <1>5, <2>1, <2>2, <3>1
  <2>3. CASE k.by # "check"
    <3> DEFINE n == [k EXCEPT !.pc = "user"]
    <3>1. walks' = {n} /\ k.by # "check"
      BY <1>1, <1>8, <2>3 DEF ReadProject, WalkOn, Walk
    <3>2. n \in Walk /\ Further(k, n) /\ n.pc = "user" /\ n.at = k.at
      BY <1>1 DEF Walk, Further
    <3> HIDE DEF n
    <3>3. OnTheWay(n)'
      BY <1>3, <2>1, <3>1, <3>2 DEF OnTheWay, Further, Compared
    <3>4. QED
      BY <3>1, <3>2, <3>3 DEF WalkOK
  <2>4. QED
    BY <2>2, <2>3
<1>9. CASE ReadUserRow(k)
  <2>1. /\ k.by # "check" /\ OrgOf(k) = home[k.caller]
        /\ ~k.moved => Compared(k.at, OrgOf(k)) \in k.seen
    BY <1>1, <1>9 DEF ReadUserRow, OnTheWay, OrgOf
  <2>2. Answers(k, Compared(k.at, home[k.caller])) /\ k.moved \in BOOLEAN
    BY <1>1, <1>9 DEF ReadUserRow, Walk
  <2>3. QED
    BY <1>4, <1>5, <2>1, <2>2
<1>10. QED
  BY <1>6, <1>7, <1>8, <1>9

\* A walk during which others write: it has seen the verdict of the moment, and
\* knows whether its job or its user was moved.
LEMMA WalkIsWatched ==
    ASSUME TablesOK, TablesOK', NEW moved, NEW v, Written(moved, v),
           NEW k \in walks, WalkOK(k),
           NEW n, n = [k EXCEPT !.seen = @ \cup {Verdict(OrgOf(k), k.asked)'},
                                !.moved = @ \/ k.asked \in moved
                                            \/ (k.by # "check" /\ k.caller = v)]
    PROVE  WalkOK(n)'
<1>1. k \in Walk /\ OnTheWay(k)
  BY DEF WalkOK
<1> DEFINE m == k.moved \/ k.asked \in moved \/ (k.by # "check" /\ k.caller = v)
           d == Verdict(OrgOf(k), k.asked)'
<1>2. d \in Answer /\ m \in BOOLEAN
  BY <1>1 DEF Verdict, Compared, Answer, Walk
<1> HIDE DEF m, d
<1>3. n = [k EXCEPT !.seen = @ \cup {d}, !.moved = m]
  BY DEF m, d
<1>4. /\ n \in Walk /\ n.by = k.by /\ n.caller = k.caller /\ n.org = k.org
      /\ n.asked = k.asked /\ n.pc = k.pc /\ n.at = k.at /\ n.answer = k.answer
      /\ n.seen = k.seen \cup {d} /\ n.moved = m
  <2>1. n.by = k.by /\ n.caller = k.caller /\ n.org = k.org
    BY <1>1, <1>3 DEF Walk
  <2>2. n.asked = k.asked /\ n.pc = k.pc /\ n.at = k.at /\ n.answer = k.answer
    BY <1>1, <1>3 DEF Walk
  <2>3. n.seen = k.seen \cup {d}
    BY <1>1, <1>3 DEF Walk
  <2>4. n.moved = m
    BY <1>1, <1>3 DEF Walk
  <2>5. n \in Walk
    <3>1. PICK seen \in SUBSET Answer : seen = k.seen \cup {d}
      BY <1>1, <1>2 DEF Walk
    <3>2. PICK b \in BOOLEAN : b = m
      BY <1>2
    <3>3. n = [k EXCEPT !.seen = seen, !.moved = b]
      BY <1>3, <3>1, <3>2
    <3>4. QED
      BY <1>1, <3>3 DEF Walk
  <2>6. QED
    BY <2>1, <2>2, <2>3, <2>4, <2>5
<1>5. k.moved => m
  BY DEF m
<1>6. ~m /\ k.asked \in JobIds => jobQueue'[k.asked] = jobQueue[k.asked]
  BY DEF m, Written
<1>7. /\ OrgOf(n)' = OrgOf(k)'
      /\ k.by = "check" \/ ~m => OrgOf(k)' = OrgOf(k)
  BY <1>1, <1>4 DEF OrgOf, m, Written, Walk
<1>8. Verdict(OrgOf(n), n.asked)' \in n.seen
  BY <1>4, <1>7 DEF d, Verdict
<1>9. k.at \in there \cup gone => /\ k.at \in there' \cup gone'
                                  /\ k.at \in there' => k.at \in there
  BY DEF Written, TablesOK
<1>10. OnTheWay(n)'
  BY <1>1, <1>4, <1>5, <1>6, <1>7, <1>8, <1>9 DEF OnTheWay, Compared, ProjectOf
<1>11. QED
  BY <1>4, <1>5, <1>10 DEF WalkOK


-----------------------------------------------------------------------------
(***************************************************************************)
(* The listing.                                                            *)
(***************************************************************************)

\* One round of a loop: l becomes n, which lists more queues, workers or jobs.
Round(l, n, x) ==
    /\ n.org = l.org /\ n.projects = l.projects
    /\ l.stage \in {"queues", "workers", "jobs"}
    /\ n.queues = IF l.stage = "queues"
                  THEN l.queues \cup OfProject(x, QueueIds) ELSE l.queues
    /\ n.workers = IF l.stage = "workers"
                   THEN l.workers \cup OfProject(x, WorkerIds) ELSE l.workers
    /\ n.jobs = IF l.stage = "jobs"
                THEN l.jobs \cup {j \in JobIds : jobQueue[j] = x} ELSE l.jobs
    /\ l.rest # {x} => n.stage = l.stage /\ n.rest = l.rest \ {x}
    /\ l.rest = {x} =>
          CASE l.stage = "queues"  -> n.stage = "workers" /\ n.rest = n.projects
            [] l.stage = "workers" -> n.stage = "jobs" /\ n.rest = n.queues
            [] l.stage = "jobs"    -> n.stage = "done" /\ n.rest = {}

\* One round leaves one listing of the right type (authorization_service.rs:379).
LEMMA RoundsAreTyped ==
    ASSUME TablesOK, listing \subseteq ListingRow, NEW l \in listing, NEW x \in l.rest,
           ListQueues(l, x) \/ ListWorkers(l, x) \/ ListJobs(l, x)
    PROVE  \E n \in ListingRow : Round(l, n, x) /\ listing' = {n}
<1>1. l \in ListingRow
  OBVIOUS
<1>2. ASSUME NEW l2 \in ListingRow, Listed(l, l2, x),
             l2.org = l.org, l2.projects = l.projects, l2.stage = l.stage,
             l.stage \in {"queues", "workers", "jobs"},
             l2.queues = IF l.stage = "queues"
                         THEN l.queues \cup OfProject(x, QueueIds)
                         ELSE l.queues,
             l2.jobs = IF l.stage = "jobs"
                       THEN l.jobs \cup {j \in JobIds : jobQueue[j] = x}
                       ELSE l.jobs,
             l2.workers = IF l.stage = "workers"
                          THEN l.workers \cup OfProject(x, WorkerIds)
                          ELSE l.workers
      PROVE  \E n \in ListingRow : Round(l, n, x) /\ listing' = {n}
  <2>1. CASE l.rest # {x}
    <3> DEFINE n == [l2 EXCEPT !.rest = l.rest \ {x}]
    <3>1. listing' = {n}
      BY <1>2, <2>1 DEF Listed, ListingGoesOn
    <3>2. /\ n \in ListingRow /\ n.org = l2.org /\ n.projects = l2.projects
          /\ n.stage = l2.stage /\ n.queues = l2.queues /\ n.jobs = l2.jobs
          /\ n.workers = l2.workers
          /\ n.rest = l.rest \ {x}
      BY <1>1 DEF ListingRow
    <3> HIDE DEF n
    <3>3. Round(l, n, x)
      BY <1>2, <2>1, <3>2 DEF Round
    <3>4. QED
      BY <3>1, <3>2, <3>3
  <2>2. CASE l.rest = {x}
    <3> DEFINE n == Turned(l, l2)
    <3>1. listing' = {n}
      BY <1>2, <2>2 DEF Listed, ListingGoesOn
    <3>2. /\ n \in ListingRow /\ n.org = l2.org /\ n.projects = l2.projects
          /\ n.queues = l2.queues /\ n.jobs = l2.jobs
          /\ n.workers = l2.workers
          /\ l.stage = "queues" => n.stage = "workers" /\ n.rest = l.projects
          /\ l.stage = "workers" => n.stage = "jobs" /\ n.rest = l.queues
          /\ l.stage = "jobs" => n.stage = "done" /\ n.rest = {}
      BY <1>1, <1>2 DEF ListingRow, Turned
    <3> HIDE DEF n
    <3>3. Round(l, n, x)
      BY <1>2, <2>2, <3>2 DEF Round
    <3>4. QED
      BY <3>1, <3>2, <3>3
  <2>3. QED
    BY <2>1, <2>2
<1>3. CASE ListQueues(l, x)
  <2> DEFINE more == OfProject(x, QueueIds)
             l2 == [l EXCEPT !.queues = @ \cup more]
  <2>1. more \subseteq QueueIds
    BY DEF OfProject
  <2>2. l.stage = "queues" /\ Listed(l, l2, x)
    BY <1>3 DEF ListQueues
  <2> HIDE DEF more
  <2>3. /\ l2 \in ListingRow /\ l2.org = l.org /\ l2.projects = l.projects
        /\ l2.stage = l.stage /\ l2.queues = l.queues \cup more /\ l2.jobs = l.jobs
        /\ l2.workers = l.workers
    BY <1>1, <2>1 DEF ListingRow
  <2> HIDE DEF l2
  <2>4. QED
    BY <1>2, <2>2, <2>3 DEF more
<1>4. CASE ListWorkers(l, x)
  <2> DEFINE more == OfProject(x, WorkerIds)
             l2 == [l EXCEPT !.workers = @ \cup more]
  <2>1. more \subseteq WorkerIds
    BY DEF OfProject
  <2>2. l.stage = "workers" /\ Listed(l, l2, x)
    BY <1>4 DEF ListWorkers
  <2> HIDE DEF more
  <2>3. /\ l2 \in ListingRow /\ l2.org = l.org /\ l2.projects = l.projects
        /\ l2.stage = l.stage /\ l2.queues = l.queues /\ l2.jobs = l.jobs
        /\ l2.workers = l.workers \cup more
    BY <1>1, <2>1 DEF ListingRow
  <2> HIDE DEF l2
  <2>4. QED
    BY <1>2, <2>2, <2>3 DEF more
<1>5. CASE ListJobs(l, x)
  <2> DEFINE more == {j \in JobIds : jobQueue[j] = x}
             l2 == [l EXCEPT !.jobs = @ \cup more]
  <2>1. more \subseteq JobIds
    OBVIOUS
  <2>2. l.stage = "jobs" /\ Listed(l, l2, x)
    BY <1>5 DEF ListJobs
  <2> HIDE DEF more
  <2>3. /\ l2 \in ListingRow /\ l2.org = l.org /\ l2.projects = l.projects
        /\ l2.stage = l.stage /\ l2.queues = l.queues /\ l2.jobs = l.jobs \cup more
        /\ l2.workers = l.workers
    BY <1>1, <2>1 DEF ListingRow
  <2> HIDE DEF l2
  <2>4. QED
    BY <1>2, <2>2, <2>3 DEF more
<1>6. QED
  BY <1>3, <1>4, <1>5


\* A listing and what it knows are as they should be.
ListingOK == listing \subseteq ListingRow /\ ListingInv /\ ListingIsSound

\* A listing starts with what belongs to the organization noted.
LEMMA BeginKeepsTrack ==
    ASSUME TablesOK, NEW u \in Callers, BeginListing(u)
    PROVE  ListingOK'
<1>1. PICK o \in Organizations : o = home[u]
  BY DEF TablesOK
<1>2. PICK n : n = [org |-> o, stage |-> "projects", projects |-> {}, rest |-> {},
                    queues |-> {}, workers |-> {}, jobs |-> {}]
  OBVIOUS
<1>3. /\ listing' = {n} /\ UNCHANGED tables
      /\ reached' = BelongsTo(o) /\ stayed' = {j \in JobIds : Verdict(o, j) = "granted"}
  BY <1>1, <1>2 DEF BeginListing
<1>4. /\ n \in ListingRow /\ n.org = o /\ n.projects = {} /\ n.stage = "projects"
      /\ n.rest = {} /\ n.queues = {} /\ n.workers = {} /\ n.jobs = {}
  BY <1>1, <1>2 DEF ListingRow
<1>5. BelongsTo(o)' = reached' /\ \A j \in stayed' : Verdict(o, j)' = "granted"
  BY <1>3, TablesDecide
<1>6. \A j \in JobIds : jobQueue'[j] \notin {}
  OBVIOUS
<1>7. Noted(n)'
  BY <1>4, <1>5, <1>6 DEF Noted
<1>8. \A j \in stayed' : AheadOf(n, j)'
  BY <1>3, <1>4, <1>5 DEF AheadOf
<1>9. ListingIsSound'
  BY <1>3, <1>4 DEF ListingIsSound
<1>10. QED
  BY <1>3, <1>4, <1>7, <1>8, <1>9 DEF ListingOK, ListingInv

\* The projects of the organization are ahead, and with them the jobs that stay.
LEMMA ProjectsAreAhead ==
    ASSUME TablesOK, AccessTypeOK, ListingOK, NEW l \in listing, ListProjects(l)
    PROVE  ListingOK'
<1> DEFINE projects == {p \in Projects : ProjectOrg[p] = l.org}
<1>1. PICK n : n = [l EXCEPT !.stage = "queues", !.projects = projects,
                             !.rest = projects]
  OBVIOUS
<1>2. /\ listing' = {n} /\ UNCHANGED <<tables, reached, stayed, late>>
      /\ l.stage = "projects"
  BY <1>1 DEF ListProjects, ListingGoesOn
<1>3. l \in ListingRow /\ Noted(l) /\ \A j \in stayed : AheadOf(l, j)
  BY DEF ListingOK, ListingInv
<1>4. /\ n \in ListingRow /\ n.org = l.org /\ n.projects = projects
      /\ n.stage = "queues" /\ n.rest = projects
      /\ n.queues = {} /\ n.workers = {} /\ n.jobs = {}
  BY <1>1, <1>2, <1>3 DEF ListingRow, Noted
<1>5. /\ BelongsTo(l.org)' = BelongsTo(l.org)
      /\ \A j : Verdict(l.org, j)' = Verdict(l.org, j)
  BY <1>2, TablesDecide
<1>6. \A j \in stayed : /\ j \in JobIds /\ Verdict(l.org, j) = "granted"
                        /\ QueueProject[jobQueue[j]] \in projects
  BY <1>3, Belonging, AuthorizationAssumption DEF AheadOf
<1> HIDE DEF projects
<1>7. \A j \in JobIds : jobQueue'[j] \notin {}
  OBVIOUS
<1>8. BelongsTo(n.org)' \subseteq reached'
  BY <1>2, <1>3, <1>4, <1>5 DEF Noted
<1>9. n.projects = {p \in Projects : ProjectOrg[p] = n.org}
  BY <1>4 DEF projects
<1>10. Noted(n)'
  BY <1>4, <1>7, <1>8, <1>9 DEF Noted
<1>11. \A j \in stayed' : AheadOf(n, j)'
  BY <1>2, <1>4, <1>5, <1>6 DEF AheadOf, tables
<1>12. ListingIsSound'
  BY <1>2, <1>4, <1>6 DEF ListingIsSound
<1>13. QED
  BY <1>2, <1>4, <1>10, <1>11, <1>12 DEF ListingOK, ListingInv

\* A round lists what belongs to the organization, and passes no job that
\* stays.
LEMMA RoundsKeepTrack ==
    ASSUME TablesOK, AccessTypeOK, ListingOK, NEW l \in listing, NEW x \in l.rest,
           ListQueues(l, x) \/ ListWorkers(l, x) \/ ListJobs(l, x)
    PROVE  ListingOK'
<1>1. PICK n \in ListingRow : Round(l, n, x) /\ listing' = {n}
  BY RoundsAreTyped DEF ListingOK
<1>2. UNCHANGED <<tables, reached, stayed, late>>
  BY DEF ListQueues, ListWorkers, ListJobs, Listed, ListingGoesOn
<1>3. /\ n.org = l.org /\ n.projects = l.projects
      /\ l.stage \in {"queues", "workers", "jobs"}
  BY <1>1 DEF Round
<1>4. /\ BelongsTo(n.org)' = BelongsTo(l.org)
      /\ \A j : Verdict(n.org, j)' = Verdict(l.org, j)
      /\ UNCHANGED <<there, gone, jobQueue>>
  BY <1>2, <1>3, TablesDecide DEF tables
<1>5. /\ Noted(l) /\ l \in ListingRow
      /\ l.queues \cup l.workers \subseteq reached /\ l.jobs \subseteq reached \cup late
  BY DEF ListingOK, ListingInv, ListingIsSound
<1>6. l.stage \in {"queues", "workers"} => x \in Projects /\ ProjectOrg[x] = l.org
  BY <1>5 DEF Noted
<1>7. /\ \A q \in QueueIds : ProjectOf(q) = QueueProject[q]
      /\ \A w \in WorkerIds : ProjectOf(w) = WorkerProject[w]
  BY AuthorizationAssumption DEF ProjectOf
<1>8. \A q \in n.queues \ l.queues :
         /\ q \in there \cap QueueIds /\ ProjectOrg[QueueProject[q]] = l.org
         /\ Verdict(l.org, q) = "granted"
         /\ \A j \in JobIds : jobQueue[j] = q => Verdict(l.org, j) = "granted"
  <2>1. \A q \in n.queues \ l.queues :
           /\ l.stage = "queues" /\ q \in there \cap QueueIds
           /\ QueueProject[q] = x
    BY <1>1, <1>7 DEF Round, OfProject
  <2>2. QED
    BY <1>6, <2>1, Belonging
<1>9. \A w \in n.workers \ l.workers : w \in WorkerIds /\ Verdict(l.org, w) = "granted"
  <2>1. \A w \in n.workers \ l.workers :
           /\ l.stage = "workers" /\ w \in there \cap WorkerIds
           /\ WorkerProject[w] = x
    BY <1>1, <1>7 DEF Round, OfProject
  <2>2. QED
    BY <1>6, <2>1, Belonging
<1>10. /\ n.queues \cup n.workers \subseteq reached
       /\ \A q \in n.queues \ l.queues :
             \A j \in JobIds : jobQueue[j] = q => j \in reached
  BY <1>5, <1>8, <1>9 DEF BelongsTo, Noted, Rows
<1>11. \A q \in n.queues : q \in there \cup gone /\ ProjectOrg[QueueProject[q]] = l.org
  BY <1>5, <1>8 DEF Noted
<1>12. n.jobs \subseteq reached \cup late
  <2>1. \A j \in n.jobs \ l.jobs : l.stage = "jobs" /\ j \in JobIds /\ jobQueue[j] = x
    BY <1>1 DEF Round
  <2>2. l.stage = "jobs" => x \in l.queues
    BY <1>5 DEF Noted
  <2>3. QED
    BY <1>5, <2>1, <2>2 DEF Noted
<1>13. n.stage # "projects"
  BY <1>1, <1>3 DEF Round
<1>14. Noted(n)'
  <2>1. \A j \in JobIds : jobQueue[j] \in n.queues => j \in reached \cup late
    BY <1>5, <1>10 DEF Noted
  <2>2. n.stage \in {"queues", "workers"} => n.rest \subseteq n.projects
    BY <1>1, <1>3, <1>5 DEF Round, Noted
  <2>3. n.stage = "jobs" => n.rest \subseteq n.queues
    BY <1>1, <1>3, <1>5 DEF Round, Noted
  <2>4. n.projects = {p \in Projects : ProjectOrg[p] = n.org}
    BY <1>3, <1>5 DEF Noted
  <2>5. BelongsTo(n.org)' \subseteq reached'
    BY <1>2, <1>4, <1>5 DEF Noted
  <2>6. QED
    BY <1>2, <1>3, <1>4, <1>11, <1>13, <2>1, <2>2, <2>3, <2>4, <2>5 DEF Noted
<1>15. ASSUME NEW j \in stayed
       PROVE  AheadOf(n, j)'
  <2>1. AheadOf(l, j)
    BY DEF ListingOK, ListingInv
  <2>2. /\ j \in JobIds /\ Verdict(l.org, j) = "granted"
        /\ jobQueue[j] \in there \cap QueueIds
        /\ QueueProject[jobQueue[j]] \in l.projects
        /\ ProjectOf(jobQueue[j]) = QueueProject[jobQueue[j]]
    BY <1>3, <1>5, <1>7, <2>1, Belonging, AuthorizationAssumption DEF AheadOf, Noted
  <2>3. CASE l.rest # {x}
    <3>1. n.stage = l.stage /\ n.rest = l.rest \ {x} /\ n.rest # {}
      BY <1>1, <2>3 DEF Round
    <3>2. l.queues \subseteq n.queues /\ l.jobs \subseteq n.jobs
      BY <1>1 DEF Round
    <3>3. /\ l.stage = "queues" /\ QueueProject[jobQueue[j]] = x
                => jobQueue[j] \in n.queues
          /\ l.stage = "jobs" /\ jobQueue[j] = x => j \in n.jobs
      BY <1>1, <2>2 DEF Round, OfProject
    <3>4. QED
      BY <1>3, <1>4, <2>1, <2>2, <3>1, <3>2, <3>3 DEF AheadOf
  <2>4. CASE l.rest = {x}
    <3>1. CASE l.stage = "queues"
      <4>1. n.stage = "workers" /\ n.rest = n.projects
        BY <1>1, <2>4, <3>1 DEF Round
      <4>2. jobQueue[j] \in n.queues
        BY <1>1, <2>1, <2>2, <2>4, <3>1 DEF Round, AheadOf, OfProject
      <4>3. QED
        BY <1>3, <1>4, <2>2, <4>1, <4>2 DEF AheadOf
    <3>2. CASE l.stage = "workers"
      <4>1. n.stage = "jobs" /\ n.rest = n.queues /\ n.queues = l.queues
        BY <1>1, <2>4, <3>2 DEF Round
      <4>2. QED
        BY <1>3, <1>4, <2>1, <2>2, <3>2, <4>1 DEF AheadOf
    <3>3. CASE l.stage = "jobs"
      <4>1. n.stage = "done" /\ n.rest = {}
        BY <1>1, <2>4, <3>3 DEF Round
      <4>2. j \in n.jobs
        BY <1>1, <2>1, <2>2, <2>4, <3>3 DEF Round, AheadOf
      <4>3. QED
        BY <1>3, <1>4, <2>2, <4>1, <4>2 DEF AheadOf
    <3>4. QED
      BY <1>3, <3>1, <3>2, <3>3
  <2>5. QED
    BY <2>3, <2>4
<1>16. ListingIsSound'
  <2>1. ASSUME n.rest = {}, NEW j \in stayed
        PROVE  j \in n.jobs
    <3>1. AheadOf(n, j)'
      BY <1>15
    <3>2. n.stage \in {"queues", "workers", "jobs", "done"}
      BY <1>13 DEF ListingRow
    <3>3. QED
      BY <2>1, <3>1, <3>2 DEF AheadOf
  <2>2. QED
    BY <1>1, <1>2, <1>10, <1>12, <2>1 DEF ListingIsSound
<1>17. QED
  BY <1>1, <1>2, <1>14, <1>15, <1>16 DEF ListingOK, ListingInv

\* What others write meanwhile is noted: what belonged to the organization
\* before was, what comes to belong to it is, and what comes too late is late.
LEMMA ChangesAreNoted ==
    ASSUME TablesOK, TablesOK', AccessTypeOK, AccessTypeOK', ListingOK,
           NEW moved, NEW v, Written(moved, v)
    PROVE  ListingOK'
<1>1. /\ listing' = listing /\ reached \subseteq reached' /\ late \subseteq late'
      /\ \A l \in listing : BelongsTo(l.org)' \subseteq reached'
      /\ there \cup gone \subseteq there' \cup gone'
      /\ stayed' \subseteq stayed \ moved
      /\ \A l \in listing, j \in stayed' : Verdict(l.org, j)' = "granted"
  BY DEF Written, Meanwhile
<1>2. ASSUME NEW l \in listing
      PROVE  Noted(l)'
  <2>1. Noted(l)
    BY DEF ListingOK, ListingInv
  <2>2. BelongsTo(l.org)' \subseteq reached'
    BY <1>1
  <2>3. ASSUME NEW j \in JobIds, jobQueue'[j] \in l.queues
        PROVE  j \in reached' \cup late'
    <3>1. CASE jobQueue'[j] = jobQueue[j]
      BY <1>1, <2>1, <2>3, <3>1 DEF Noted
    <3>2. CASE jobQueue'[j] # jobQueue[j] /\ jobQueue'[j] \in gone'
      BY <3>2 DEF Written
    <3>3. CASE jobQueue'[j] # jobQueue[j] /\ jobQueue'[j] \notin gone'
      <4> DEFINE q == jobQueue'[j]
      <4>1. q \in QueueIds /\ q \in there' /\ ProjectOrg[QueueProject[q]] = l.org
        BY <1>1, <2>1, <2>3, <3>3 DEF Written, Noted
      <4>2. Verdict(l.org, j)' = "granted"
        <5>1. j \notin Projects /\ ProjectOf(q) = QueueProject[q]
          BY <4>1, AuthorizationAssumption DEF ProjectOf
        <5>2. QED
          BY <4>1, <5>1 DEF Verdict, Compared, ProjectOf
      <4>3. QED
        BY <2>2, <4>2 DEF BelongsTo
    <3>4. QED
      BY <3>1, <3>2, <3>3
  <2>4. QED
    BY <1>1, <2>1, <2>2, <2>3 DEF Noted
<1>3. ASSUME NEW l \in listing, NEW j \in stayed'
      PROVE  AheadOf(l, j)'
  <2>1. AheadOf(l, j) /\ j \notin moved
    BY <1>1 DEF ListingOK, ListingInv
  <2>2. j \in JobIds /\ jobQueue'[j] = jobQueue[j]
    BY <2>1 DEF AheadOf, Written
  <2>3. QED
    BY <1>1, <2>1, <2>2 DEF AheadOf
<1>4. ListingIsSound'
  BY <1>1 DEF ListingOK, ListingIsSound
<1>5. QED
  BY <1>1, <1>2, <1>3, <1>4 DEF ListingOK, ListingInv

-----------------------------------------------------------------------------
(***************************************************************************)
(* The theorems.                                                           *)
(***************************************************************************)

WalksOK == \A k \in walks : WalkOK(k)

AccessInv == TablesOK /\ WalksOK /\ ListingOK

LEMMA AccessInvTypes == AccessInv => AccessTypeOK
  BY DEF AccessInv, TablesOK, WalksOK, WalkOK, ListingOK, AccessTypeOK

\* A step that changes only walks, or only the listing.
LEMMA ReadersReadOnly ==
    ASSUME AccessInv, UNCHANGED tables
    PROVE  /\ TablesOK'
           /\ UNCHANGED walks => WalksOK'
           /\ UNCHANGED <<listing, reached, stayed, late>> => ListingOK'
<1>1. TablesOK'
  BY DEF AccessInv, TablesOK, tables
<1>2. UNCHANGED walks => WalksOK'
  BY TablesDecide DEF AccessInv, WalksOK, WalkOK, OnTheWay, Compared, ProjectOf, tables
<1>3. ASSUME UNCHANGED <<listing, reached, stayed, late>>
      PROVE  ListingOK'
  <2>1. \A l \in listing : Noted(l)' = Noted(l)
    BY <1>3, TablesDecide DEF Noted, tables
  <2>2. \A l \in listing, j \in stayed : AheadOf(l, j)' = AheadOf(l, j)
    BY <1>3, TablesDecide DEF AheadOf, tables
  <2>3. QED
    BY <1>3, <2>1, <2>2 DEF AccessInv, ListingOK, ListingInv, ListingIsSound
<1>4. QED
  BY <1>1, <1>2, <1>3

\* The steps of those who read.
LEMMA ReadersKeepTrack ==
    ASSUME AccessInv, ReaderNext
    PROVE  AccessInv'
<1>1. AccessTypeOK /\ TablesOK
  BY AccessInvTypes DEF AccessInv
<1>2. ASSUME NEW by \in {"check", "can", "service"}, NEW u \in Callers,
             NEW o \in Organizations, NEW x \in Resources, BeginWalk(by, u, o, x),
             by # "check" => x \notin Projects /\ o = home[u]
      PROVE  AccessInv'
  <2>1. UNCHANGED <<tables, listing, reached, stayed, late>>
    BY <1>2 DEF BeginWalk
  <2>2. WalksOK'
    BY <1>1, <1>2, WalkBegins DEF WalksOK
  <2>3. QED
    BY <2>1, <2>2, ReadersReadOnly DEF AccessInv
<1>3. ASSUME NEW u \in Callers, NEW x \in Resources,
             \/ CanAccess(u, x)
             \/ CanAccessJob(u, x) \/ CanAccessQueue(u, x) \/ CanAccessWorker(u, x)
      PROVE  AccessInv'
  <2>1. home[u] \in Organizations
    BY <1>1 DEF TablesOK
  <2>2. x \notin Projects
    BY <1>3, AuthorizationAssumption
       DEF CanAccess, CanAccessJob, CanAccessQueue, CanAccessWorker
  <2>3. PICK by \in {"can", "service"} : BeginWalk(by, u, home[u], x)
    BY <1>3 DEF CanAccess, CanAccessJob, CanAccessQueue, CanAccessWorker
  <2>4. QED
    BY <1>2, <2>1, <2>2, <2>3
<1>4. ASSUME NEW u \in Callers, NEW x \in Resources, NEW o \in Organizations,
              CheckResourceAccess(u, o, x)
       PROVE  AccessInv'
  BY <1>2, <1>4 DEF CheckResourceAccess
<1>5. ASSUME NEW k \in walks,
             ReadJobRow(k) \/ ReadRow(k) \/ ReadProject(k) \/ ReadUserRow(k)
      PROVE  AccessInv'
  <2>1. UNCHANGED <<tables, listing, reached, stayed, late>>
    BY <1>5 DEF ReadJobRow, ReadRow, ReadProject, ReadUserRow, Answers, WalkOn
  <2>2. WalksOK'
    BY <1>1, <1>5, WalkGoesOn DEF AccessInv, WalksOK
  <2>3. QED
    BY <2>1, <2>2, ReadersReadOnly DEF AccessInv
<1>6. ASSUME NEW k \in walks, EndWalk(k)
      PROVE  AccessInv'
  <2>1. UNCHANGED <<tables, listing, reached, stayed, late>> /\ walks' = {}
    BY <1>6 DEF EndWalk
  <2>2. WalksOK'
    BY <2>1 DEF WalksOK
  <2>3. QED
    BY <2>1, <2>2, ReadersReadOnly DEF AccessInv
<1>7. ASSUME NEW u \in Callers, BeginListing(u)
      PROVE  AccessInv'
  <2>1. UNCHANGED <<tables, walks>>
    BY <1>7 DEF BeginListing
  <2>2. ListingOK'
    BY <1>1, <1>7, BeginKeepsTrack
  <2>3. QED
    BY <2>1, <2>2, ReadersReadOnly DEF AccessInv
<1>8. ASSUME NEW l \in listing, ListProjects(l)
      PROVE  AccessInv'
  <2>1. UNCHANGED <<tables, walks>>
    BY <1>8 DEF ListProjects, ListingGoesOn
  <2>2. ListingOK'
    BY <1>1, <1>8, ProjectsAreAhead DEF AccessInv
  <2>3. QED
    BY <2>1, <2>2, ReadersReadOnly DEF AccessInv
<1>9. ASSUME NEW l \in listing, NEW x \in l.rest,
             ListQueues(l, x) \/ ListWorkers(l, x) \/ ListJobs(l, x)
      PROVE  AccessInv'
  <2>1. UNCHANGED <<tables, walks>>
    BY <1>9 DEF ListQueues, ListWorkers, ListJobs, Listed, ListingGoesOn
  <2>2. ListingOK'
    BY <1>1, <1>9, RoundsKeepTrack DEF AccessInv
  <2>3. QED
    BY <2>1, <2>2, ReadersReadOnly DEF AccessInv
<1>10. ASSUME EndListing
      PROVE  AccessInv'
  <2>1. UNCHANGED <<tables, walks>> /\ listing' = {}
    BY <1>10 DEF EndListing
  <2>2. ListingOK'
    BY <2>1 DEF ListingOK, ListingInv, ListingIsSound
  <2>3. QED
    BY <2>1, <2>2, ReadersReadOnly DEF AccessInv
<1>11. QED
  BY <1>3, <1>4, <1>5, <1>6, <1>7, <1>8, <1>9, <1>10 DEF ReaderNext

\* The steps of those who write.
LEMMA WritersKeepTrack ==
    ASSUME AccessInv, WriterNext
    PROVE  AccessInv'
<1>1. AccessTypeOK /\ TablesOK /\ TablesOK'
  BY AccessInvTypes, WritersWrite DEF AccessInv
<1>2. CASE Quiet
  <2>1. UNCHANGED <<home, there, gone, jobQueue>>
    BY <1>2 DEF Quiet
  <2>2. /\ \A o, x : Verdict(o, x)' = Verdict(o, x)
        /\ \A k : OrgOf(k)' = OrgOf(k)
    BY <2>1 DEF Verdict, OrgOf
  <2>3. \A o : BelongsTo(o)' = BelongsTo(o)
    BY <2>2 DEF BelongsTo
  <2>4. WalksOK'
    BY <1>2, <2>2 DEF Quiet, AccessInv, WalksOK, WalkOK, OnTheWay, Compared, ProjectOf
  <2>5. \A l \in listing : Noted(l)' = Noted(l)
    BY <1>2, <2>3 DEF Quiet, Noted
  <2>6. \A l \in listing, j \in stayed : AheadOf(l, j)' = AheadOf(l, j)
    BY <1>2, <2>2 DEF Quiet, AheadOf
  <2>7. QED
    BY <1>1, <1>2, <2>4, <2>5, <2>6
       DEF Quiet, AccessInv, ListingOK, ListingInv, ListingIsSound
<1>3. ASSUME NEW moved, NEW v, Written(moved, v)
      PROVE  AccessInv'
  <2>1. ASSUME NEW n \in walks'
        PROVE  WalkOK(n)'
    <3>1. PICK k \in walks :
             n = [k EXCEPT !.seen = @ \cup {Verdict(OrgOf(k), k.asked)'},
                           !.moved = @ \/ k.asked \in moved
                                       \/ (k.by # "check" /\ k.caller = v)]
      BY <1>3 DEF Written, Meanwhile
    <3>2. WalkOK(k)
      BY DEF AccessInv, WalksOK
    <3>3. QED
      BY <1>1, <1>3, <3>1, <3>2, WalkIsWatched
  <2>2. WalksOK'
    BY <2>1 DEF WalksOK
  <2>3. AccessTypeOK'
    <3>1. walks' \subseteq Walk
      BY <2>1 DEF WalkOK
    <3>2. listing' = listing
      BY <1>3 DEF Written, Meanwhile
    <3>3. QED
      BY <1>1, <3>1, <3>2 DEF TablesOK, AccessTypeOK
  <2>4. ListingOK'
    BY <1>1, <1>3, <2>3, ChangesAreNoted DEF AccessInv
  <2>5. QED
    BY <1>1, <2>2, <2>4 DEF AccessInv
<1>4. QED
  BY <1>2, <1>3, WritersWrite DEF AccessInv

LEMMA AccessIsInvariant == AccessSpec => []AccessInv
<1>1. AccessInit => AccessInv
  BY DEF AccessInit, AccessInv, TablesOK, WalksOK, ListingOK, ListingInv, ListingIsSound
<1>2. ASSUME AccessInv, [AccessNext]_accessVars
      PROVE  AccessInv'
  <2>1. CASE UNCHANGED accessVars
    BY <1>2, <2>1, ReadersReadOnly DEF accessVars, AccessInv
  <2>2. CASE AccessNext
    BY <1>2, <2>2, ReadersKeepTrack, WritersKeepTrack DEF AccessNext
  <2>3. QED
    BY <1>2, <2>1, <2>2
<1>3. QED
  BY <1>1, <1>2, PTL DEF AccessSpec

\* Whatever others create, delete and move between its reads, and however many
\* rows, jobs and users there are: check_resource_access and can_access_*
\* answer what one read of everything would have answered at some moment of the
\* call, unless the job or the user in question was moved meanwhile
\* (authorization_service.rs:90 and 288, job_service.rs:311).
THEOREM WalksAnswerRightly == AccessSpec => []WalksAreRight
<1>1. AccessInv => WalksAreRight
  BY DEF AccessInv, WalksOK, WalkOK, WalksAreRight
<1>2. QED
  BY <1>1, AccessIsInvariant, PTL

\* Whatever others create, delete, move and write too late between its reads:
\* get_user_accessible_resources lists what was the organization's at some
\* moment of the call, or came too late, and no job is missing at the end that
\* was the organization's all the time (authorization_service.rs:365, and
\* job_service.rs:42 and 67).
THEOREM ListingsAreSound == AccessSpec => []ListingIsSound
<1>1. AccessInv => ListingIsSound
  BY DEF AccessInv, ListingOK
<1>2. QED
  BY <1>1, AccessIsInvariant, PTL
=============================================================================
