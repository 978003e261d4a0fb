-------------------------- MODULE MCApiKeyService --------------------------
(***************************************************************************)
(* Instances of ApiKeyService for TLC.                                     *)
(***************************************************************************)
EXTENDS ApiKeyService, TLC

\* A permission of the usual form, one only the row would accept, and one
\* neither validation accepts.
SomePermissions == {<<"job", "write">>, <<"job", "read-all">>, <<"admin">>}

\* One of them, or none, which update_api_key accepts.
SmallGrants == {{p} : p \in SomePermissions} \cup {{}}

KeySymmetry == Permutations(Secrets) \cup Permutations(Callers) \cup Permutations(Keys)
=============================================================================
