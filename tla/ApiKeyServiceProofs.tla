------------------------ MODULE ApiKeyServiceProofs ------------------------
(***************************************************************************)
(* Whatever stale rows the handlers of ApiKeyService write over each       *)
(* other: a secret opens its own key alone, a revoked key stays revoked, a *)
(* rotation that was alone leaves one secret, and all tests of a key       *)
(* agree.                                                                  *)
(***************************************************************************)
EXTENDS ApiKeyService, TLAPS

KeyInv ==
    /\ KeyTypeOK
    /\ KeysInv
    /\ RevokedInv
    /\ NewestInv
    /\ PendingInv
    /\ PlainInv

Owners == [Secrets -> Keys \cup {NoSecret}]

\* The empty row is told from a row by its secret.
LEMMA NoKeyIsNoRow == NoKey \notin KeyRow
<1>1. NoKey.key_hash = NoSecret
  BY DEF NoKey
<1>2. \A r \in KeyRow : r.key_hash \in Secrets
  BY DEF KeyRow
<1>3. QED
  BY <1>1, <1>2, ApiKeyAssumption

\* The row of a stored key is a key row.
LEMMA StoredRow ==
    ASSUME KeyTypeOK, NEW k \in Keys, Stored(k)
    PROVE  keys[k] \in KeyRow
  BY DEF KeyTypeOK, Stored

\* What the handlers make of a row is a row, with the parts they keep.
LEMMA RowChanges ==
    ASSUME NEW r \in KeyRow
    PROVE  /\ \A ps \in SUBSET Permissions :
                 LET n == [r EXCEPT !.permissions = ps]
                 IN  /\ n \in KeyRow /\ n.key_hash = r.key_hash
                     /\ n.expires_at = r.expires_at
                     /\ n.is_active = r.is_active /\ n.permissions = ps
           /\ \A e \in Nat \cup {Never} :
                 LET n == [r EXCEPT !.expires_at = e]
                 IN  /\ n \in KeyRow /\ n.key_hash = r.key_hash /\ n.expires_at = e
                     /\ PlainRow(n) <=> PlainRow(r)
           /\ \A s \in Secrets :
                 LET n == [r EXCEPT !.key_hash = s]
                 IN  /\ n \in KeyRow /\ n.key_hash = s
                     /\ n.expires_at = r.expires_at
                     /\ PlainRow(n) <=> PlainRow(r)
  BY DEF KeyRow, PlainRow

\* The word for everything has one part, and no request may give it.
LEMMA ValidIsNotAdmin ==
    ASSUME NEW ps, \A p \in ps : IsValidPermission(p)
    PROVE  <<"admin">> \notin ps
<1>1. Len(<<"admin">>) = 1
  OBVIOUS
<1>2. QED
  BY <1>1 DEF IsValidPermission

\* A change of a key is what its parts say.
LEMMA KeyChangeType ==
    ASSUME NEW c \in Callers, NEW op \in KeyOp, NEW k \in Keys, NEW r \in KeyRow
    PROVE  LET x == [id |-> c, op |-> op, key |-> k, row |-> r]
           IN  /\ x \in KeyChange /\ x.id = c /\ x.op = op
               /\ x.key = k /\ x.row = r
  BY DEF KeyChange

\* What a request leaves behind: one more change, with a row of its key's own
\* that does not undo a revocation or a rotation that holds.
Allowed(x) ==
    /\ OwnRow(x.key, x.row, owner')
    /\ x.key \in revoked' => Dead(x.row, now)
    /\ newest'[x.key] # NoSecret => x.row.key_hash = newest'[x.key]
    /\ IF x.op = "create_api_key"
       THEN /\ ~Stored(x.key) /\ x.key \notin gone
            /\ \A y \in changes : y.key # x.key
       ELSE Stored(x.key)
    /\ x.op = "revoke_api_key" => Dead(x.row, now)
    /\ PlainRow(x.row)

Histories ==
    /\ owner' \in Owners
    /\ \A s \in Secrets : owner[s] # NoSecret => owner'[s] = owner[s]
    /\ revoked' \subseteq revoked
    /\ newest' \in [Keys -> Secrets \cup {NoSecret}]
    /\ \A k \in Keys : newest'[k] # NoSecret => newest'[k] = newest[k]

Adds(c) ==
    \E x \in KeyChange :
        /\ x.id = c
        /\ \A y \in changes : y.id # c
        /\ changes' = changes \cup {x}
        /\ UNCHANGED <<keys, gone, now>>
        /\ Histories
        /\ Allowed(x)

LEMMA PrepareAdds ==
    ASSUME NEW c \in Callers, NEW op \in KeyOp, NEW k \in Keys, NEW r \in KeyRow,
           Prepare(c, op, k, r), Histories,
           OwnRow(k, r, owner'),
           k \in revoked' => Dead(r, now),
           newest'[k] # NoSecret => r.key_hash = newest'[k],
           IF op = "create_api_key"
           THEN ~Stored(k) /\ k \notin gone /\ \A y \in changes : y.key # k
           ELSE Stored(k),
           op = "revoke_api_key" => Dead(r, now),
           PlainRow(r)
    PROVE  Adds(c)
<1> DEFINE x == [id |-> c, op |-> op, key |-> k, row |-> r]
<1>1. x \in KeyChange /\ x.id = c /\ x.op = op /\ x.key = k /\ x.row = r
  BY KeyChangeType
<1>2. /\ \A y \in changes : y.id # c
      /\ changes' = changes \cup {x}
      /\ UNCHANGED <<keys, gone, now>>
  BY DEF Prepare
<1> HIDE DEF x
<1>3. Allowed(x)
  BY <1>1 DEF Allowed
<1>4. QED
  BY <1>1, <1>2, <1>3 DEF Adds

\* A secret that is given to k leaves the others to their keys.
LEMMA OwnerGrows ==
    ASSUME KeyTypeOK, NEW s \in Secrets, NEW k \in Keys, Fresh(s),
           owner' = [owner EXCEPT ![s] = k]
    PROVE  /\ owner' \in Owners /\ owner'[s] = k
           /\ \A t \in Secrets : owner[t] # NoSecret => owner'[t] = owner[t]
  BY DEF KeyTypeOK, Owners, Fresh

LEMMA RequestAdds ==
    ASSUME KeyInv, NEW c \in Callers, NEW k \in Keys, KeyRequest(c, k)
    PROVE  Adds(c)
<1> USE DEF KeyInv
<1>t. Time \cup {Never} \subseteq Nat \cup {Never} /\ now \in Nat
  BY ApiKeyAssumption DEF Time, KeyTypeOK
<1>h. ASSUME UNCHANGED <<owner, newest>>, revoked' \subseteq revoked
      PROVE  Histories
  BY <1>h DEF Histories, KeyTypeOK, Owners
<1>s. ASSUME Stored(k)
      PROVE  /\ keys[k] \in KeyRow
             /\ OwnRow(k, keys[k], owner)
             /\ k \in revoked => Dead(keys[k], now)
             /\ newest[k] # NoSecret => keys[k].key_hash = newest[k]
             /\ PlainRow(keys[k])
  BY <1>s, StoredRow DEF KeysInv, RevokedInv, NewestInv, PlainInv
<1>1. ASSUME NEW s \in Secrets, NEW ps \in Grants, NEW e \in Time \cup {Never},
             CreateApiKey(c, k, s, ps, e)
      PROVE  Adds(c)
  <2> DEFINE r == NewKey(s, ps, e)
  <2>1. r \in KeyRow /\ r.key_hash = s
    BY <1>t, ApiKeyAssumption DEF NewKey, KeyRow
  <2>p. PlainRow(r)
    BY <1>1, ValidIsNotAdmin DEF CreateApiKey, NewKey, PlainRow
  <2>2. /\ ~Stored(k) /\ k \notin gone /\ \A y \in changes : y.key # k
        /\ Fresh(s) /\ Prepare(c, "create_api_key", k, r)
        /\ owner' = [owner EXCEPT ![s] = k]
        /\ revoked' = revoked /\ newest' = newest
    BY <1>1 DEF CreateApiKey
  <2> HIDE DEF r
  <2>3. Histories /\ OwnRow(k, r, owner')
    BY <2>1, <2>2, OwnerGrows DEF Histories, OwnRow, KeyTypeOK
  <2>4. k \notin revoked' /\ newest'[k] = NoSecret
    BY <2>2 DEF RevokedInv, NewestInv
  <2>5. QED
    BY <2>p, <2>1, <2>2, <2>3, <2>4, PrepareAdds DEF KeyOp
<1>2. ASSUME NEW ps \in Grants, UpdatePermissions(c, k, ps)
      PROVE  Adds(c)
  <2> DEFINE r == [keys[k] EXCEPT !.permissions = ps]
  <2>1. /\ Stored(k) /\ Prepare(c, "update_api_key", k, r)
        /\ UNCHANGED <<owner, revoked, newest>>
    BY <1>2 DEF UpdatePermissions
  <2>2. r \in KeyRow /\ r.key_hash = keys[k].key_hash /\ r.expires_at = keys[k].expires_at
    BY <2>1, <1>s, RowChanges, ApiKeyAssumption
  <2>p. PlainRow(r)
    <3>1. r.is_active = keys[k].is_active /\ r.permissions = ps
      BY <2>1, <1>s, RowChanges, ApiKeyAssumption
    <3>2. <<"admin">> \notin ps
      BY <1>2, ValidIsNotAdmin DEF UpdatePermissions
    <3>3. QED
      BY <2>1, <1>s, <3>1, <3>2 DEF PlainRow
  <2> HIDE DEF r
  <2>3. Histories
    BY <2>1, <1>h
  <2>4. /\ OwnRow(k, r, owner')
        /\ k \in revoked' => Dead(r, now)
        /\ newest'[k] # NoSecret => r.key_hash = newest'[k]
    BY <2>1, <2>2, <1>s DEF OwnRow, Dead
  <2>5. QED
    BY <2>p, <2>1, <2>2, <2>3, <2>4, PrepareAdds DEF KeyOp
<1>3. ASSUME NEW e \in Time \cup {Never}, UpdateExpiry(c, k, e)
      PROVE  Adds(c)
  <2> DEFINE r == [keys[k] EXCEPT !.expires_at = e]
  <2>1. /\ Stored(k) /\ Prepare(c, "update_api_key", k, r)
        /\ revoked' = revoked \ {k} /\ UNCHANGED <<owner, newest>>
    BY <1>3 DEF UpdateExpiry
  <2>2. r \in KeyRow /\ r.key_hash = keys[k].key_hash /\ PlainRow(r)
    BY <2>1, <1>s, <1>t, RowChanges
  <2> HIDE DEF r
  <2>3. Histories
    BY <2>1, <1>h
  <2>4. /\ OwnRow(k, r, owner') /\ k \notin revoked'
        /\ newest'[k] # NoSecret => r.key_hash = newest'[k]
    BY <2>1, <2>2, <1>s DEF OwnRow
  <2>5. QED
    BY <2>1, <2>2, <2>3, <2>4, PrepareAdds DEF KeyOp
<1>4. ASSUME NEW s \in Secrets, RotateApiKey(c, k, s)
      PROVE  Adds(c)
  <2> DEFINE r == [keys[k] EXCEPT !.key_hash = s]
  <2>1. /\ Stored(k) /\ Fresh(s) /\ Prepare(c, "rotate_api_key", k, r)
        /\ owner' = [owner EXCEPT ![s] = k] /\ revoked' = revoked
        /\ newest' = [newest EXCEPT ![k] = NoSecret]
    BY <1>4 DEF RotateApiKey
  <2>2. r \in KeyRow /\ r.key_hash = s /\ r.expires_at = keys[k].expires_at /\ PlainRow(r)
    BY <2>1, <1>s, RowChanges
  <2> HIDE DEF r
  <2>3. Histories /\ OwnRow(k, r, owner')
    BY <2>1, <2>2, OwnerGrows DEF Histories, OwnRow, KeyTypeOK
  <2>4. (k \in revoked' => Dead(r, now)) /\ newest'[k] = NoSecret
    BY <2>1, <2>2, <1>s DEF Dead, KeyTypeOK
  <2>5. QED
    BY <2>1, <2>2, <2>3, <2>4, PrepareAdds DEF KeyOp
<1>5. CASE RevokeApiKey(c, k)
  <2> DEFINE r == [keys[k] EXCEPT !.expires_at = now]
  <2>1. /\ Stored(k) /\ Prepare(c, "revoke_api_key", k, r)
        /\ UNCHANGED <<owner, revoked, newest>>
    BY <1>5 DEF RevokeApiKey
  <2>2. r \in KeyRow /\ r.key_hash = keys[k].key_hash /\ r.expires_at = now /\ PlainRow(r)
    BY <2>1, <1>s, <1>t, RowChanges
  <2> HIDE DEF r
  <2>3. Histories
    BY <2>1, <1>h
  <2>4. Dead(r, now)
    BY <2>2, <1>t, ApiKeyAssumption DEF Dead
  <2>5. /\ OwnRow(k, r, owner')
        /\ newest'[k] # NoSecret => r.key_hash = newest'[k]
    BY <2>1, <2>2, <1>s DEF OwnRow
  <2>6. QED
    BY <2>1, <2>2, <2>3, <2>4, <2>5, PrepareAdds DEF KeyOp
<1>6. QED
  BY <1>1, <1>2, <1>3, <1>4, <1>5 DEF KeyRequest

-----------------------------------------------------------------------------
\* Stored says the same of the rows of the next state.
LEMMA StoredNext ==
    ASSUME NEW k \in Keys
    PROVE  Stored(k)' <=> keys'[k] # NoKey
  BY DEF Stored

LEMMA AddsKeepsInv ==
    ASSUME KeyInv, NEW c \in Callers, Adds(c)
    PROVE  KeyInv'
<1> USE DEF KeyInv
<1>1. PICK x \in KeyChange :
        /\ x.id = c
        /\ \A y \in changes : y.id # c
        /\ changes' = changes \cup {x}
        /\ UNCHANGED <<keys, gone, now>>
        /\ Histories
        /\ Allowed(x)
  BY DEF Adds
<1>2. x.key \in Keys /\ x.row \in KeyRow /\ changes \subseteq KeyChange
  BY DEF KeyChange, KeyTypeOK
<1>3. \A k \in Keys : Stored(k)' <=> Stored(k)
  BY <1>1 DEF Stored
<1>4. KeyTypeOK'
  BY <1>1, <1>3 DEF KeyTypeOK, Histories, Owners
<1>5. KeysInv'
  <2>1. ASSUME NEW k \in Keys, NEW r \in KeyRow, OwnRow(k, r, owner)
        PROVE  OwnRow(k, r, owner')
    BY <2>1, <1>1, ApiKeyAssumption DEF OwnRow, Histories, KeyRow
  <2>2. \A k \in Keys : Stored(k) => OwnRow(k, keys[k], owner')
    BY <2>1, StoredRow DEF KeysInv
  <2>3. \A y \in changes : OwnRow(y.key, y.row, owner')
    BY <2>1, <1>2 DEF KeysInv, KeyChange
  <2>4. QED
    BY <1>1, <1>3, <2>2, <2>3 DEF KeysInv, Allowed
<1>6. RevokedInv'
  BY <1>1, <1>3 DEF RevokedInv, Histories, Allowed, KeyTypeOK
<1>7. NewestInv'
  BY <1>1, <1>3 DEF NewestInv, Histories, Allowed
<1>8. PendingInv'
  <2>1. ASSUME NEW y \in changes, y.op = "create_api_key", y.key = x.key
        PROVE  FALSE
    BY <2>1, <1>1 DEF PendingInv, Allowed
  <2>2. \A y \in changes : y.key \in Keys
    BY <1>2 DEF KeyChange
  <2>3. ASSUME NEW y \in changes'
        PROVE  /\ y.op = "create_api_key" =>
                     /\ ~Stored(y.key)' /\ y.key \notin gone'
                     /\ \A z \in changes' : z.key = y.key => z = y
               /\ y.op = "revoke_api_key" => Dead(y.row, now')
    <3>1. CASE y = x
      BY <3>1, <1>1, <1>2, <1>3 DEF Allowed
    <3>2. CASE y \in changes
      BY <3>2, <2>1, <2>2, <1>1, <1>3 DEF PendingInv
    <3>3. QED
      BY <3>1, <3>2, <1>1
  <2>4. QED
    BY <2>3 DEF PendingInv
<1>9. PlainInv'
  BY <1>1, <1>3 DEF PlainInv, Allowed
<1>10. QED
  BY <1>4, <1>5, <1>6, <1>7, <1>8, <1>9

\* A change that ends leaves nothing to say of it.
LEMMA AbortKeepsInv ==
    ASSUME KeyInv, NEW x \in changes, AbortChange(x)
    PROVE  KeyInv'
<1> USE DEF KeyInv
<1>1. /\ changes' = changes \ {x}
      /\ UNCHANGED <<keys, gone, owner, now, revoked, newest>>
  BY DEF AbortChange
<1>2. \A k : Stored(k)' <=> Stored(k)
  BY <1>1 DEF Stored
<1>3. KeyTypeOK'
  BY <1>1, <1>2 DEF KeyTypeOK
<1>4. KeysInv' /\ RevokedInv' /\ NewestInv' /\ PendingInv' /\ PlainInv'
  BY <1>1, <1>2 DEF KeysInv, RevokedInv, NewestInv, PendingInv, PlainInv
<1>5. QED
  BY <1>3, <1>4

\* What Settle says of a key holds of it: its own change was the only one.
LEMMA Settled ==
    ASSUME KeyInv, NEW x \in changes, Settle(x), changes' = changes \ {x},
           now' = now
    PROVE  /\ revoked' \subseteq revoked \cup {x.key}
           /\ \A k \in Keys : k # x.key => newest'[k] = newest[k]
           /\ newest' \in [Keys -> Secrets \cup {NoSecret}]
           /\ x.key \in revoked' =>
                 /\ Dead(x.row, now)
                 /\ \A y \in changes' : y.key = x.key => Dead(y.row, now)
           /\ newest'[x.key] # NoSecret =>
                 /\ x.row.key_hash = newest'[x.key]
                 /\ \A y \in changes' : y.key = x.key => y.row.key_hash = newest'[x.key]
<1> USE DEF KeyInv
<1>1. x.key \in Keys /\ x.row.key_hash \in Secrets
  BY DEF KeyTypeOK, KeyChange, KeyRow
<1>2. /\ x.key \in revoked => \A y \in changes : y.key = x.key => Dead(y.row, now)
      /\ newest[x.key] # NoSecret =>
            \A y \in changes : y.key = x.key => y.row.key_hash = newest[x.key]
  BY <1>1 DEF RevokedInv, NewestInv
<1>3. x.op = "revoke_api_key" => Dead(x.row, now)
  BY DEF PendingInv
<1>4. CASE \A y \in changes \ {x} : y.key # x.key
  <2>1. /\ revoked' = IF x.op = "revoke_api_key" THEN revoked \cup {x.key} ELSE revoked
        /\ newest' = IF x.op = "rotate_api_key"
                     THEN [newest EXCEPT ![x.key] = x.row.key_hash] ELSE newest
    BY <1>4 DEF Settle
  <2>2. \A y \in changes' : y.key # x.key
    BY <1>4
  <2>3. x.key \in revoked' => Dead(x.row, now)
    BY <2>1, <1>2, <1>3
  <2>4. newest'[x.key] # NoSecret => x.row.key_hash = newest'[x.key]
    BY <2>1, <1>1, <1>2 DEF KeyTypeOK
  <2>5. QED
    BY <2>1, <2>2, <2>3, <2>4, <1>1 DEF KeyTypeOK
<1>5. CASE ~(\A y \in changes \ {x} : y.key # x.key)
  <2>1. revoked' = revoked /\ newest' = newest
    BY <1>5 DEF Settle
  <2>2. QED
    BY <2>1, <1>1, <1>2 DEF KeyTypeOK
<1>6. QED
  BY <1>4, <1>5

LEMMA WriteKeepsInv ==
    ASSUME KeyInv, NEW x \in changes, WriteKey(x)
    PROVE  KeyInv'
<1> USE DEF KeyInv
<1>1. changes' = changes \ {x} /\ UNCHANGED <<gone, owner, now>>
  BY DEF WriteKey
<1>2. CASE ~(x.op = "create_api_key" \/ Stored(x.key))
  BY <1>1, <1>2, AbortKeepsInv DEF WriteKey, AbortChange
<1>3. CASE x.op = "create_api_key" \/ Stored(x.key)
  <2>1. keys' = [keys EXCEPT ![x.key] = x.row] /\ Settle(x)
    BY <1>3 DEF WriteKey
  <2>2. x.key \in Keys /\ x.row \in KeyRow /\ x.key \notin gone
    BY <1>3 DEF KeyTypeOK, KeyChange, PendingInv
  <2>3. /\ keys'[x.key] = x.row /\ Stored(x.key)'
        /\ \A k \in Keys : k # x.key => keys'[k] = keys[k] /\ (Stored(k)' <=> Stored(k))
    BY <2>1, <2>2, NoKeyIsNoRow DEF KeyTypeOK, Stored
  <2>4. /\ revoked' \subseteq revoked \cup {x.key}
        /\ \A k \in Keys : k # x.key => newest'[k] = newest[k]
        /\ newest' \in [Keys -> Secrets \cup {NoSecret}]
        /\ x.key \in revoked' =>
              /\ Dead(x.row, now)
              /\ \A y \in changes' : y.key = x.key => Dead(y.row, now)
        /\ newest'[x.key] # NoSecret =>
              /\ x.row.key_hash = newest'[x.key]
              /\ \A y \in changes' : y.key = x.key => y.row.key_hash = newest'[x.key]
    BY <1>1, <2>1, Settled
  <2>5. KeyTypeOK'
    <3>1. keys' \in [Keys -> KeyRow \cup {NoKey}]
      BY <2>1, <2>2 DEF KeyTypeOK
    <3>2. gone' \subseteq {k \in Keys : ~Stored(k)'}
      BY <1>1, <2>2, <2>3 DEF KeyTypeOK
    <3>3. QED
      BY <1>1, <2>2, <2>4, <3>1, <3>2 DEF KeyTypeOK
  <2>6. KeysInv'
    BY <1>1, <2>2, <2>3 DEF KeysInv
  <2>7. RevokedInv'
    BY <1>1, <2>2, <2>3, <2>4 DEF RevokedInv, KeyTypeOK
  <2>8. NewestInv'
    BY <1>1, <2>2, <2>3, <2>4 DEF NewestInv
  <2>9. PendingInv'
    <3>1. \A y \in changes' : y.op = "create_api_key" => y.key # x.key
      BY <1>1 DEF PendingInv
    <3>2. \A y \in changes : y.key \in Keys
      BY DEF KeyTypeOK, KeyChange
    <3>3. QED
      BY <1>1, <2>3, <3>1, <3>2 DEF PendingInv
  <2>10. PlainInv'
    BY <1>1, <2>2, <2>3 DEF PlainInv
  <2>11. QED
    BY <2>5, <2>6, <2>7, <2>8, <2>9, <2>10
<1>4. QED
  BY <1>2, <1>3

LEMMA DeleteKeepsInv ==
    ASSUME KeyInv, NEW k \in Keys, DeleteApiKey(k)
    PROVE  KeyInv'
<1> USE DEF KeyInv
<1>1. /\ Stored(k) /\ keys' = [keys EXCEPT ![k] = NoKey] /\ gone' = gone \cup {k}
      /\ UNCHANGED <<owner, now, changes, revoked, newest>>
  BY DEF DeleteApiKey
<1>2. /\ ~Stored(k)'
      /\ \A j \in Keys : j # k => keys'[j] = keys[j] /\ (Stored(j)' <=> Stored(j))
  BY <1>1 DEF KeyTypeOK, Stored
<1>3. KeyTypeOK'
  <2>1. keys' \in [Keys -> KeyRow \cup {NoKey}]
    BY <1>1 DEF KeyTypeOK
  <2>2. gone' \subseteq {j \in Keys : ~Stored(j)'}
    BY <1>1, <1>2 DEF KeyTypeOK
  <2>3. QED
    BY <1>1, <2>1, <2>2 DEF KeyTypeOK
<1>4. KeysInv' /\ RevokedInv' /\ NewestInv' /\ PlainInv'
  BY <1>1, <1>2 DEF KeysInv, RevokedInv, NewestInv, PlainInv, KeyTypeOK
<1>5. PendingInv'
  <2>1. \A x \in changes : x.key \in Keys /\ (x.op = "create_api_key" => x.key # k)
    BY <1>1 DEF KeyTypeOK, KeyChange, PendingInv
  <2>2. QED
    BY <1>1, <1>2, <2>1 DEF PendingInv
<1>6. QED
  BY <1>3, <1>4, <1>5

\* What has expired stays so.
LEMMA TickKeepsInv ==
    ASSUME KeyInv, Tick
    PROVE  KeyInv'
<1> USE DEF KeyInv
<1>1. now' = now + 1 /\ UNCHANGED <<keys, gone, owner, changes, revoked, newest>>
  BY DEF Tick
<1>2. now \in Nat /\ now' \in Nat
  BY <1>1 DEF KeyTypeOK
<1>3. \A k : Stored(k)' <=> Stored(k)
  BY <1>1 DEF Stored
<1>4. \A r \in KeyRow : Dead(r, now) => Dead(r, now')
  BY <1>1, <1>2 DEF Dead, KeyRow
<1>5. KeyTypeOK' /\ KeysInv' /\ NewestInv' /\ PlainInv'
  BY <1>1, <1>2, <1>3 DEF KeyTypeOK, KeysInv, NewestInv, PlainInv
<1>6. \A x \in changes : x.row \in KeyRow
  BY DEF KeyTypeOK, KeyChange
<1>7. RevokedInv'
  BY <1>1, <1>3, <1>4, <1>6, StoredRow DEF RevokedInv, KeyTypeOK
<1>8. PendingInv'
  BY <1>1, <1>3, <1>4, <1>6 DEF PendingInv
<1>9. QED
  BY <1>5, <1>7, <1>8

-----------------------------------------------------------------------------
\* The inductive invariant: every row, stored or in flight, is its key's own,
\* and agrees with the revocation and the rotation that hold.
THEOREM KeyInvHolds == KeySpec => []KeyInv
<1>1. KeyInit => KeyInv
  <2> SUFFICES ASSUME KeyInit PROVE KeyInv
    OBVIOUS
  <2>1. KeyTypeOK
    BY DEF KeyInit, KeyTypeOK, Stored
  <2>2. \A k \in Keys : ~Stored(k)
    BY DEF KeyInit, Stored
  <2>3. KeysInv /\ RevokedInv /\ NewestInv /\ PendingInv /\ PlainInv
    BY <2>2 DEF KeyInit, KeysInv, RevokedInv, NewestInv, PendingInv, PlainInv
  <2>4. QED
    BY <2>1, <2>3 DEF KeyInv
<1>2. KeyInv /\ [KeyNext]_keyVars => KeyInv'
  <2> SUFFICES ASSUME KeyInv, [KeyNext]_keyVars PROVE KeyInv'
    OBVIOUS
  <2>1. ASSUME NEW c \in Callers, NEW k \in Keys, KeyRequest(c, k)
        PROVE  KeyInv'
    BY <2>1, RequestAdds, AddsKeepsInv
  <2>2. ASSUME NEW x \in changes, WriteKey(x)
        PROVE  KeyInv'
    BY <2>2, WriteKeepsInv
  <2>3. ASSUME NEW x \in changes, AbortChange(x)
        PROVE  KeyInv'
    BY <2>3, AbortKeepsInv
  <2>4. ASSUME NEW k \in Keys, DeleteApiKey(k)
        PROVE  KeyInv'
    BY <2>4, DeleteKeepsInv
  <2>5. CASE Tick
    BY <2>5, TickKeepsInv
  <2>6. CASE UNCHANGED keyVars
    BY <2>6 DEF keyVars, KeyInv, KeyTypeOK, KeysInv, RevokedInv, NewestInv,
                PendingInv, PlainInv, Stored
  <2>7. QED
    BY <2>1, <2>2, <2>3, <2>4, <2>5, <2>6 DEF KeyNext
<1>3. QED
  BY <1>1, <1>2, PTL DEF KeySpec

\* The tables of ApiKeyService hold what they should, in every reachable
\* state.
THEOREM KeyTypeCorrect == KeySpec => []KeyTypeOK
<1>1. KeyInv => KeyTypeOK
  BY DEF KeyInv
<1>2. QED
  BY <1>1, KeyInvHolds, PTL

\* A secret opens no key but the one it was made for, with any number of
\* callers that write stale rows over each other.
THEOREM SecretsAreOwn == KeySpec => []SecretsOpenTheirKey
<1>1. KeyInv => SecretsOpenTheirKey
  BY DEF KeyInv, KeysInv, OwnRow, SecretsOpenTheirKey, Validates
<1>2. QED
  BY <1>1, KeyInvHolds, PTL

\* A revocation that was alone holds until a new time of expiry is asked for.
THEOREM RevocationsHold == KeySpec => []RevokedKeysStayRevoked
<1>1. KeyInv => RevokedKeysStayRevoked
  BY DEF KeyInv, RevokedInv, Dead, RevokedKeysStayRevoked, KeyTypeOK
<1>2. QED
  BY <1>1, KeyInvHolds, PTL

\* After a rotation that was alone only its secret opens the key, until the
\* next rotation is asked for.
THEOREM RotationsHold == KeySpec => []OnlyTheNewestSecret
<1>1. KeyInv => OnlyTheNewestSecret
  BY DEF KeyInv, NewestInv, OnlyTheNewestSecret, Validates
<1>2. QED
  BY <1>1, KeyInvHolds, PTL

\* The tests that the services have of a key give one answer
\* (api_key_service.rs:161 and 183, api_key.rs:110 and 156,
\* authentication_service.rs:193, authorization_service.rs:42 and 261): no
\* row is inactive, and none was given the permission that opens everything.
THEOREM KeyMethodsAgree == KeySpec => []KeyTestsAgree
<1>1. ASSUME KeyInv
      PROVE  KeyTestsAgree
  <2>1. ASSUME NEW k \in Keys, NEW s \in Secrets
        PROVE  Validates(k, s) <=> Authenticates(k, s)
    BY <1>1 DEF KeyInv, PlainInv, PlainRow, Validates, Authenticates, IsUsable
  <2>2. ASSUME NEW k \in Keys, Stored(k), NEW p
        PROVE  HasPermission(keys[k], p) <=> p \in keys[k].permissions
    BY <1>1, <2>2 DEF KeyInv, PlainInv, PlainRow, HasPermission
  <2>3. ASSUME NEW k \in Keys, NEW s \in Secrets, NEW p \in Permissions
        PROVE  /\ AuthorizesKey(k, s, p)
                     <=> Validates(k, s) /\ CheckApiKeyPermission(k, p)
               /\ AuthorizesKey(k, s, p)
                     <=> Validates(k, s) /\ ServiceHasPermission(keys[k], p)
    <3>1. Validates(k, s) => Stored(k)
      BY DEF Validates
    <3>2. QED
      BY <2>1, <2>2, <3>1
         DEF AuthorizesKey, CheckApiKeyPermission, ServiceHasPermission
  <2>4. ASSUME NEW k \in Keys, NEW action \in {"read", "write", "admin"},
               HasPermission(keys[k], <<"job", action>>)
        PROVE  Allows(GetPermissionLevel(keys[k], "job"), action)
    <3>1. <<"job", action>> \in keys[k].permissions
      <4>1. CASE Stored(k)
        BY <2>2, <2>4, <4>1
      <4>2. CASE ~Stored(k)
        BY <2>4, <4>2 DEF Stored, NoKey, HasPermission
      <4>3. QED
        BY <4>1, <4>2
    <3>2. CASE action = "read"
      BY <3>1, <3>2 DEF GetPermissionLevel, Allows
    <3>3. CASE action = "write"
      BY <3>1, <3>3 DEF GetPermissionLevel, Allows
    <3>4. CASE action = "admin"
      BY <3>1, <3>4 DEF GetPermissionLevel, Allows
    <3>5. QED
      BY <3>2, <3>3, <3>4
  <2>5. QED
    BY <2>1, <2>3, <2>4 DEF KeyTestsAgree
<1>2. QED
  BY <1>1, KeyInvHolds, PTL
=============================================================================
