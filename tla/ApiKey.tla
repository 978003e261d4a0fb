------------------------------- MODULE ApiKey -------------------------------
(***************************************************************************)
(* The key row of src/models/api_key.rs and its methods.  A permission is  *)
(* the sequence of its parts between colons, as both validations split it: *)
(* "job:read" is <<"job", "read">> and "admin" is <<"admin">>.  Name,      *)
(* metadata and the times of creation and use are read by no guard; time   *)
(* is a number, and what is hashed one way stands for itself.              *)
(***************************************************************************)
EXTENDS Naturals, Sequences

\* A part with a dash: the row's validation admits it, the service's not.
Dashed == {"read-all"}

\* is_valid_permission_format: two parts of letters, digits, '_' and '-',
\* which an empty part is made of, too.
IsValidPermissionFormat(p) == Len(p) = 2

\* ApiKey::new, for a key that expires at e.
NewKey(s, ps, e) == [key_hash    |-> s,
                     permissions |-> ps,
                     expires_at  |-> e,
                     is_active   |-> TRUE]

\* validate, at time t.  The name is taken to be well-formed.
IsValidKey(r, never, t) ==
    /\ r.permissions # {}
    /\ \A p \in r.permissions : IsValidPermissionFormat(p)
    /\ r.expires_at # never => r.expires_at > t

Expired(r, never, t) == r.expires_at # never /\ t > r.expires_at

\* is_valid.
IsUsable(r, never, t) == r.is_active /\ ~Expired(r, never, t)

\* The row's own test has a way round it for "admin"; see has_permission of
\* the service.
HasPermission(r, p) == p \in r.permissions \/ <<"admin">> \in r.permissions

GetPermissionLevel(r, resource) ==
    IF <<resource, "admin">> \in r.permissions THEN "Admin"
    ELSE IF <<resource, "write">> \in r.permissions THEN "Write"
    ELSE IF <<resource, "read">> \in r.permissions THEN "Read"
    ELSE "None"

\* can_read, can_write and is_admin of a level.
Allows(level, action) ==
    CASE action = "read"  -> level \in {"Read", "Write", "Admin"}
      [] action = "write" -> level \in {"Write", "Admin"}
      [] action = "admin" -> level = "Admin"
=============================================================================
