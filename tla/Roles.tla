-------------------------------- MODULE Roles --------------------------------
(***************************************************************************)
(* Roles and the permissions they grant (internal/service/role.go).        *)
(***************************************************************************)

\* rolePermissions
RolePermissions ==
  [admin |-> {"user.create", "user.read", "user.update", "user.delete", "user.list",
              "settings.read", "settings.update"},
   user  |-> {"user.list"}]

RoleNames == DOMAIN RolePermissions

\* A role the table does not know, as an old access token may carry, grants
\* nothing.
ResolvePermissions(roles) == UNION {RolePermissions[r] : r \in roles \cap RoleNames}
=============================================================================
