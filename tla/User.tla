-------------------------------- MODULE User --------------------------------
(***************************************************************************)
(* The user row of src/models/user.rs and its methods.  Email, password    *)
(* and times are left out; whether a password is right is left open where  *)
(* it is asked.                                                            *)
(***************************************************************************)
EXTENDS Naturals

UserRole == {"Admin", "Member"}

UserRow(Orgs) ==
    [organization_id : Orgs, role : UserRole, is_active : BOOLEAN]

\* User::new.
NewUser(org, role) ==
    [organization_id |-> org, role |-> role, is_active |-> TRUE]

CanAccessOrganization(u, org) == u.organization_id = org

\* An admin has the role of a member, too.
HasRole(u, role) ==
    CASE role = "Admin"  -> u.role = "Admin"
      [] role = "Member" -> u.role \in {"Admin", "Member"}
=============================================================================
