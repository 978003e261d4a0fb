---------------------------- MODULE ApiKeyService ----------------------------
(***************************************************************************)
(* ApiKeyService (src/services/api_key_service.rs) over the api_keys       *)
(* table.  update, rotate and revoke read a key's row and write the whole  *)
(* row back, or so does create for a new one: in between each is a record  *)
(* of "changes", and other handlers may run.                               *)
(***************************************************************************)
EXTENDS ApiKey

CONSTANTS
    Keys,            \* key ids
    Secrets,         \* raw keys, which generate_api_key may give out
    NoSecret,        \* none of them
    Never,           \* expires_at of a key that does not expire
    Permissions,     \* the permissions callers may ask for
    Grants,          \* the sets of them that callers ask for
    Callers,         \* ids of the changes that may be in flight together
    MaxTime          \* bound: the clock stops here

ASSUME ApiKeyAssumption ==
    /\ NoSecret \notin Secrets \cup Keys
    /\ Grants \subseteq SUBSET Permissions
    /\ \A p \in Permissions : p \in Seq(STRING)
    /\ MaxTime \in Nat
    /\ Never \notin Nat

VARIABLES
    keys,     \* keys[k]: the row of key k, or NoKey
    gone,     \* the keys that were deleted: their uuids do not come back
    owner,    \* history: owner[s] is the key that secret s was made for
    now,      \* the clock
    changes,  \* the changes in flight
    revoked,  \* history: the keys whose revocation is to hold, see Settle
    newest    \* history: newest[k] is the secret that is to hold, likewise

keyVars == <<keys, gone, owner, now, changes, revoked, newest>>

Time == 0..MaxTime

KeyRow == [key_hash    : Secrets,
           permissions : SUBSET Permissions,
           expires_at  : Nat \cup {Never},
           is_active   : BOOLEAN]

NoKey == [key_hash |-> NoSecret, permissions |-> {}, expires_at |-> Never,
          is_active |-> FALSE]

Stored(k) == keys[k] # NoKey

KeyOp == {"create_api_key", "update_api_key", "rotate_api_key", "revoke_api_key"}

KeyChange == [id : Callers, op : KeyOp, key : Keys, row : KeyRow]

-----------------------------------------------------------------------------
\* Mutant of IsValidPermission: any two words will do, or one.
AnyPermission(p) == Len(p) <= 2

\* is_valid_permission: two parts of letters, digits and '_'.
IsValidPermission(p) == Len(p) = 2 /\ \A i \in 1..2 : p[i] \notin Dashed

\* has_permission of the service, which has_any_permission asks in a loop.
ServiceHasPermission(r, p) == p \in r.permissions

\* validate_api_key finds the row by the hash of the secret, and refuses it
\* once it has expired.  It does not ask whether the key is active.
Validates(k, s) ==
    /\ Stored(k)
    /\ keys[k].key_hash = s
    /\ ~Expired(keys[k], Never, now)

\* AuthenticationService::authenticate_api_key finds the row likewise, and
\* asks both.
Authenticates(k, s) ==
    /\ Stored(k)
    /\ keys[k].key_hash = s
    /\ IsUsable(keys[k], Never, now)

\* AuthorizationService::authenticate_api_key, of the row it has found.
AuthorizesKey(k, s, p) == Authenticates(k, s) /\ HasPermission(keys[k], p)

\* AuthorizationService::check_api_key_permission: an id is enough for it, of
\* a key that may have expired; the organization is the caller's.
CheckApiKeyPermission(k, p) == Stored(k) /\ p \in keys[k].permissions

\* Mutant of Fresh: a secret is made again.
FreshOrOld(s) == TRUE

\* generate_api_key: 32 random characters, which were never drawn before.
Fresh(s) == owner[s] = NoSecret

-----------------------------------------------------------------------------
\* A handler has read what it needs, and will write r as the row of k.
Prepare(c, op, k, r) ==
    /\ \A x \in changes : x.id # c
    /\ changes' = changes \cup {[id |-> c, op |-> op, key |-> k, row |-> r]}
    /\ UNCHANGED <<keys, gone, now>>

\* create_api_key; the project is one of the caller's organization.
CreateApiKey(c, k, s, ps, e) ==
    /\ ~Stored(k) /\ k \notin gone
    /\ \A x \in changes : x.key # k
    /\ \A p \in ps : IsValidPermission(p)
    /\ Fresh(s)
    /\ IsValidKey(NewKey(s, ps, e), Never, now)
    /\ Prepare(c, "create_api_key", k, NewKey(s, ps, e))
    /\ owner' = [owner EXCEPT ![s] = k]
    /\ UNCHANGED <<revoked, newest>>

\* update_api_key, of the permissions or of the time of expiry.  Unlike
\* create_api_key it validates no row: a key may be left without permissions
\* or be given a time in the past.  A new time sets aside a revocation.
UpdatePermissions(c, k, ps) ==
    /\ Stored(k)
    /\ \A p \in ps : IsValidPermission(p)
    /\ Prepare(c, "update_api_key", k, [keys[k] EXCEPT !.permissions = ps])
    /\ UNCHANGED <<owner, revoked, newest>>

\* Mutant of UpdateExpiry: it makes the row anew, as create_api_key does.
UpdateAnew(c, k, e) ==
    /\ Stored(k)
    /\ \E s \in Secrets :
         /\ Fresh(s)
         /\ Prepare(c, "update_api_key", k, NewKey(s, keys[k].permissions, e))
         /\ owner' = [owner EXCEPT ![s] = k]
    /\ revoked' = revoked \ {k}
    /\ UNCHANGED newest

UpdateExpiry(c, k, e) ==
    /\ Stored(k)
    /\ Prepare(c, "update_api_key", k, [keys[k] EXCEPT !.expires_at = e])
    /\ revoked' = revoked \ {k}
    /\ UNCHANGED <<owner, newest>>

\* Mutant of RotateApiKey: a new secret for a new period.
RotateRenews(c, k, s) ==
    /\ Stored(k)
    /\ Fresh(s)
    /\ Prepare(c, "rotate_api_key", k,
               [keys[k] EXCEPT !.key_hash = s, !.expires_at = Never])
    /\ owner' = [owner EXCEPT ![s] = k]
    /\ UNCHANGED revoked
    /\ newest' = [newest EXCEPT ![k] = NoSecret]

\* A new secret is on its way: which one holds is open until it is written.
RotateApiKey(c, k, s) ==
    /\ Stored(k)
    /\ Fresh(s)
    /\ Prepare(c, "rotate_api_key", k, [keys[k] EXCEPT !.key_hash = s])
    /\ owner' = [owner EXCEPT ![s] = k]
    /\ UNCHANGED revoked
    /\ newest' = [newest EXCEPT ![k] = NoSecret]

RevokeApiKey(c, k) ==
    /\ Stored(k)
    /\ Prepare(c, "revoke_api_key", k, [keys[k] EXCEPT !.expires_at = now])
    /\ UNCHANGED <<owner, revoked, newest>>

-----------------------------------------------------------------------------
\* What holds from now on, if x is the only change of its key in flight: its
\* revocation, its secret.  If it is not, nothing is said of the key.
Settle(x) ==
    IF \A y \in changes \ {x} : y.key # x.key
    THEN /\ revoked' = IF x.op = "revoke_api_key" THEN revoked \cup {x.key} ELSE revoked
         /\ newest' = IF x.op = "rotate_api_key"
                      THEN [newest EXCEPT ![x.key] = x.row.key_hash] ELSE newest
    ELSE /\ revoked' = revoked
         /\ newest' = newest

\* Mutant of WriteKey: an update that finds no row inserts it.
WriteKeyUpserts(x) ==
    /\ keys' = [keys EXCEPT ![x.key] = x.row]
    /\ Settle(x)
    /\ changes' = changes \ {x}
    /\ UNCHANGED <<gone, owner, now>>

\* The insert of a new row, or the update of one, which fails without a row.
WriteKey(x) ==
    /\ IF x.op = "create_api_key" \/ Stored(x.key)
       THEN keys' = [keys EXCEPT ![x.key] = x.row] /\ Settle(x)
       ELSE UNCHANGED <<keys, revoked, newest>>
    /\ changes' = changes \ {x}
    /\ UNCHANGED <<gone, owner, now>>

\* can_access_api_key refuses the change, or a database call of it fails.
AbortChange(x) ==
    /\ changes' = changes \ {x}
    /\ UNCHANGED <<keys, gone, owner, now, revoked, newest>>

\* delete_api_key reads the row only to learn whether it is there.
DeleteApiKey(k) ==
    /\ Stored(k)
    /\ keys' = [keys EXCEPT ![k] = NoKey]
    /\ gone' = gone \cup {k}
    /\ UNCHANGED <<owner, now, changes, revoked, newest>>

Tick ==
    /\ now < MaxTime
    /\ now' = now + 1
    /\ UNCHANGED <<keys, gone, owner, changes, revoked, newest>>

KeyInit ==
    /\ keys = [k \in Keys |-> NoKey]
    /\ gone = {}
    /\ owner = [s \in Secrets |-> NoSecret]
    /\ now = 0
    /\ changes = {}
    /\ revoked = {}
    /\ newest = [k \in Keys |-> NoSecret]

KeyRequest(c, k) ==
    \/ \E s \in Secrets, ps \in Grants, e \in Time \cup {Never} :
          CreateApiKey(c, k, s, ps, e)
    \/ \E ps \in Grants : UpdatePermissions(c, k, ps)
    \/ \E e \in Time \cup {Never} : UpdateExpiry(c, k, e)
    \/ \E s \in Secrets : RotateApiKey(c, k, s)
    \/ RevokeApiKey(c, k)

KeyNext ==
    \/ \E c \in Callers, k \in Keys : KeyRequest(c, k)
    \/ \E x \in changes : WriteKey(x) \/ AbortChange(x)
    \/ \E k \in Keys : DeleteApiKey(k)
    \/ Tick

KeySpec == KeyInit /\ [][KeyNext]_keyVars

-----------------------------------------------------------------------------
(***************************************************************************)
(* Properties                                                              *)
(***************************************************************************)

\* The table and the changes in flight hold key rows, and a deleted key has
\* none.
KeyTypeOK ==
    /\ keys \in [Keys -> KeyRow \cup {NoKey}]
    /\ gone \subseteq {k \in Keys : ~Stored(k)}
    /\ owner \in [Secrets -> Keys \cup {NoSecret}]
    /\ now \in Nat
    /\ changes \subseteq KeyChange
    /\ revoked \subseteq Keys
    /\ newest \in [Keys -> Secrets \cup {NoSecret}]
    /\ \A x, y \in changes : x.id = y.id => x = y

\* A secret opens no key but the one it was made for, whichever stale rows
\* the handlers write over each other (api_key_service.rs:144 and 168).
SecretsOpenTheirKey ==
    \A k \in Keys, s \in Secrets : Validates(k, s) => owner[s] = k

\* Once revoke_api_key has written a key with no other change of it in flight,
\* the key is refused from the next moment on, in spite of the rotations and
\* updates that follow, until somebody gives it a new time of expiry
\* ("langsung tidak berlaku", api_key_service.rs:317).
RevokedKeysStayRevoked ==
    \A k \in revoked : Stored(k) =>
        keys[k].expires_at # Never /\ keys[k].expires_at <= now

\* Once rotate_api_key has written a key with no other change of it in flight,
\* no other secret opens it, in spite of the updates and revocations that
\* follow, until somebody asks to rotate it again (api_key_service.rs:139).
OnlyTheNewestSecret ==
    \A k \in Keys, s \in Secrets :
        newest[k] # NoSecret /\ Validates(k, s) => s = newest[k]

\* The services give one answer about a key, although each has tests of its
\* own.  ApiKeyService, which does not ask whether the key is active, opens
\* the keys that AuthenticationService opens.  The way round for "admin", in
\* the test of the row alone, lets nobody in that check_api_key_permission
\* would refuse: no key was ever given that permission.  And the level of a
\* key lets nobody down: it allows what its permissions allow
\* (api_key_service.rs:161 and 183, api_key.rs:110 and 156,
\* authentication_service.rs:193, authorization_service.rs:42 and 261).
KeyTestsAgree ==
    /\ \A k \in Keys, s \in Secrets :
          /\ Validates(k, s) <=> Authenticates(k, s)
          /\ \A p \in Permissions :
                LET authorized == AuthorizesKey(k, s, p)
                IN  /\ authorized <=> Validates(k, s) /\ CheckApiKeyPermission(k, p)
                    /\ authorized <=> Validates(k, s) /\ ServiceHasPermission(keys[k], p)
    /\ \A k \in Keys, action \in {"read", "write", "admin"} :
          HasPermission(keys[k], <<"job", action>>) =>
              Allows(GetPermissionLevel(keys[k], "job"), action)

\* The inductive invariants behind them: a change in flight carries a row that
\* is its key's own, and the last word on it.
OwnRow(k, r, own) == own[r.key_hash] = k

KeysInv ==
    /\ \A k \in Keys : Stored(k) => OwnRow(k, keys[k], owner)
    /\ \A x \in changes : OwnRow(x.key, x.row, owner)

Dead(r, t) == r.expires_at # Never /\ r.expires_at <= t

RevokedInv ==
    \A k \in revoked :
        /\ Stored(k) => Dead(keys[k], now)
        /\ k \in gone \/ Stored(k)
        /\ \A x \in changes : x.key = k => Dead(x.row, now)

NewestInv ==
    \A k \in Keys : newest[k] # NoSecret =>
        /\ Stored(k) => keys[k].key_hash = newest[k]
        /\ k \in gone \/ Stored(k)
        /\ \A x \in changes : x.key = k => x.row.key_hash = newest[k]

PendingInv ==
    \A x \in changes :
        /\ x.op = "create_api_key" =>
              /\ ~Stored(x.key) /\ x.key \notin gone
              /\ \A y \in changes : y.key = x.key => y = x
        /\ x.op = "revoke_api_key" => Dead(x.row, now)

\* A row that the services' different tests do not tell apart.
PlainRow(r) == r.is_active /\ <<"admin">> \notin r.permissions

PlainInv ==
    /\ \A k \in Keys : Stored(k) => PlainRow(keys[k])
    /\ \A x \in changes : PlainRow(x.row)
=============================================================================
