----------------------------- MODULE RoleCatalog -----------------------------
(***************************************************************************)
(* Custom roles and custom permissions of a tenant (app/roles,             *)
(* app/permissions and their repositories).  Every statement is a step: a  *)
(* handler counts or reads, validates and only then writes, and nothing    *)
(* holds the rows in between.  The deletion of a permission is the one     *)
(* transaction: its statements see what is committed when each begins, and *)
(* others see what it did once it commits.                                 *)
(*                                                                         *)
(* granted, raced and tainted are history variables of the properties; no  *)
(* action reads them.                                                      *)
(***************************************************************************)
EXTENDS Access

CONSTANTS
    MaxCustomRolesPerTenant,
    PermInputs     \* the permission lists a request may carry

ASSUME CatalogAssumption ==
    /\ MaxCustomRolesPerTenant \in Nat
    /\ PermInputs \subseteq SUBSET Perms

VARIABLES
    permission,  \* owner of each custom permission: a tenant, NoTenant before
                 \* it is created, Gone once it is deleted
    granted,     \* system permissions a caller with a global role put in a role
    tainted,     \* role writers that lost a validated permission to a deletion
    raced        \* roles written by one of them, or with a permission whose
                 \* deletion had looked at the roles and not yet committed

catalogVars == <<permission, granted, tainted, raced>>

----------------------------------------------------------------------------
(* What the service and its repositories ask before a write.               *)

CountCustomByTenant(t) ==
    Cardinality({c \in CustomRoles : role[c].alive /\ role[c].tenant = t})

\* The ids of P that are neither system permissions nor the tenant's own.
UnknownPermissionIDs(t, P) ==
    {p \in P : p \notin SystemPerms /\ permission[p] # t}

SystemPermissionIDs(P) == P \cap SystemPerms

\* Mistake: what is granted is not compared with what the caller holds.
EnsureGrantableNever(r, added) == TRUE

\* ensureGrantable: nobody but super_admin grants a system permission it lacks.
EnsureGrantable(r, added) ==
    \/ added = {}
    \/ CanSeePlatformInternals(r)
    \/ \A p \in SystemPermissionIDs(added) : Can(r, p)

CountActiveAssignments(c) ==
    Cardinality({m \in Rows : utr[m].role = c /\ utr[m].status = "active"})

----------------------------------------------------------------------------
(* Roles.                                                                  *)

\* Inside the transaction of permissions.Delete: the permission's row is deleted,
\* and nobody sees it yet.
Deleting(q) == pc[q] \in {"perm_clean", "perm_lock", "perm_commit"}

\* The row of role c is locked by the UPDATE of such a transaction.
Locked(c) == \E q \in Requests : pc[q] = "perm_commit" /\ c \in arg[q].roles

\* A deletion of one of the permissions P has looked for the roles that hold it,
\* has not found role c and has not committed.
Overlooks(c, P) ==
    \E q \in Requests : /\ pc[q] \in {"perm_lock", "perm_commit"}
                       /\ c \notin arg[q].roles
                       /\ P \cap arg[q].perms # {}

\* The history variables when request r writes the permissions P in role c.
RecordWrite(r, c, P) ==
    /\ granted' = IF IsCrossTenantRole(r) THEN granted \cup SystemPermissionIDs(P)
                                          ELSE granted
    /\ raced' = IF r \in tainted \/ Overlooks(c, P) THEN raced \cup {c} ELSE raced
    /\ tainted' = tainted \ {r}

\* Mistake: the limit is not looked at.
SvcCreateRoleUnlimited(r, P) == Goto(r, "create_validate", [NoArg EXCEPT !.perms = P])

\* The limit is counted first.
SvcCreateRole(r, P) ==
    IF CountCustomByTenant(ses[r].tenant) < MaxCustomRolesPerTenant
    THEN Goto(r, "create_validate", [NoArg EXCEPT !.perms = P])
    ELSE Answer(r)

\* POST /roles.
CreateRole(r) ==
    /\ RBACCheck(r, "perm_users_manage")
    /\ \E P \in PermInputs : SvcCreateRole(r, P)
    /\ UNCHANGED <<tables, catalogVars>>

CreateRoleValidate(r) ==
    /\ pc[r] = "create_validate"
    /\ IF /\ UnknownPermissionIDs(ses[r].tenant, arg[r].perms) = {}
          /\ EnsureGrantable(r, arg[r].perms)
       THEN Goto(r, "create_insert", arg[r])
       ELSE Answer(r)
    /\ UNCHANGED <<tables, catalogVars>>

\* INSERT INTO roles; the tenant's foreign key may have gone.
InsertRole(r) ==
    /\ pc[r] = "create_insert"
    /\ ses[r].tenant \in tenants
    /\ \E c \in CustomRoles :
          /\ role[c] = NoRoleRow
          /\ role' = [role EXCEPT ![c] = [tenant |-> ses[r].tenant,
                                          perms  |-> arg[r].perms, alive |-> TRUE]]
          /\ RecordWrite(r, c, arg[r].perms)
    /\ Answer(r)
    /\ UNCHANGED <<tenants, utr, permission>>

\* The visible row is read, a system one is refused.
SvcUpdateRole(r, c, P) ==
    IF /\ GetByIDForTenant(c, ses[r].tenant, CanSeePlatformInternals(r))
       /\ c \notin SystemRoles
    THEN Goto(r, "update_validate",
              [NoArg EXCEPT !.role = c, !.perms = P, !.had = role[c].perms])
    ELSE Answer(r)

\* PUT /roles/:id.
UpdateRole(r) ==
    /\ RBACCheck(r, "perm_users_manage")
    /\ \E c \in RoleIds, P \in PermInputs : SvcUpdateRole(r, c, P)
    /\ UNCHANGED <<tables, catalogVars>>

\* Only what the copy read before did not have counts as added.
UpdateRoleValidate(r) ==
    /\ pc[r] = "update_validate"
    /\ IF /\ UnknownPermissionIDs(ses[r].tenant, arg[r].perms) = {}
          /\ EnsureGrantable(r, arg[r].perms \ arg[r].had)
       THEN Goto(r, "update_write", arg[r])
       ELSE Answer(r)
    /\ UNCHANGED <<tables, catalogVars>>

WriteRole(r) ==
    /\ pc[r] = "update_write"
    /\ ~Locked(arg[r].role)
    /\ IF role[arg[r].role].alive
       THEN /\ role' = [role EXCEPT ![arg[r].role].perms = arg[r].perms]
            /\ RecordWrite(r, arg[r].role, arg[r].perms)
       ELSE /\ tainted' = tainted \ {r}
            /\ UNCHANGED <<role, granted, raced>>
    /\ Answer(r)
    /\ UNCHANGED <<tenants, utr, permission>>

\* Read, count the active assignments, then soft delete.
SvcDeleteRole(r, c) ==
    IF /\ GetByIDForTenant(c, ses[r].tenant, CanSeePlatformInternals(r))
       /\ c \notin SystemRoles
    THEN Goto(r, "delete_count", [NoArg EXCEPT !.role = c])
    ELSE Answer(r)

\* DELETE /roles/:id.
DeleteRole(r) ==
    /\ RBACCheck(r, "perm_users_manage")
    /\ \E c \in RoleIds : SvcDeleteRole(r, c)
    /\ UNCHANGED <<tables, catalogVars>>

DeleteRoleCount(r) ==
    /\ pc[r] = "delete_count"
    /\ IF CountActiveAssignments(arg[r].role) = 0
       THEN Goto(r, "delete_write", arg[r])
       ELSE Answer(r)
    /\ UNCHANGED <<tables, catalogVars>>

SoftDelete(r) ==
    /\ pc[r] = "delete_write"
    /\ ~Locked(arg[r].role)
    /\ role' = [role EXCEPT ![arg[r].role].alive = FALSE]
    /\ Answer(r)
    /\ UNCHANGED <<tenants, utr, catalogVars>>

----------------------------------------------------------------------------
(* Permissions.                                                            *)

InsertPermission(t) ==
    /\ t \in tenants
    /\ \E k \in CustomPerms :
          /\ permission[k] = NoTenant
          /\ permission' = [permission EXCEPT ![k] = t]

\* POST /permissions: one INSERT, then the row is read back for the answer.
CreatePermission(r) ==
    /\ RBACCheck(r, "perm_users_manage")
    /\ InsertPermission(ses[r].tenant)
    /\ Answer(r)
    /\ UNCHANGED <<tables, granted, tainted, raced>>

\* permissions.GetByID: a system permission or one of the tenant.
PermissionVisible(p, t) == p \in SystemPerms \cup {q \in CustomPerms : permission[q] = t}

\* PUT /permissions/:id: the row is read and a system one refused; the update
\* only changes texts, which the model leaves out.
UpdatePermission(r) ==
    /\ RBACCheck(r, "perm_users_manage")
    /\ \E p \in Perms : PermissionVisible(p, ses[r].tenant)
    /\ Answer(r)
    /\ UNCHANGED <<tables, catalogVars>>

\* The row is read and a system one refused.
DeleteLookup(r, p) ==
    IF PermissionVisible(p, ses[r].tenant) /\ p \notin SystemPerms
    THEN Goto(r, "perm_delete", [NoArg EXCEPT !.perms = {p}])
    ELSE Answer(r)

\* DELETE /permissions/:id.
DeletePermission(r) ==
    /\ RBACCheck(r, "perm_users_manage")
    /\ \E p \in Perms : DeleteLookup(r, p)
    /\ UNCHANGED <<tables, catalogVars>>

\* Mistake: only the permission's row is deleted.
CleanRolesNot(C, D) == role

\* The roles once the permissions D are taken out of the rows C.
CleanRoles(C, D) ==
    [c \in CustomRoles |-> IF c \in C
                           THEN [role[c] EXCEPT !.perms = @ \ D] ELSE role[c]]

\* Past its validation and about to write one of the permissions D.
HasValidated(q, D) ==
    pc[q] \in {"create_insert", "update_write"} /\ arg[q].perms \cap D # {}

\* The roles of tenant t, deleted ones too, that hold one of the permissions D.
RolesWith(t, D) == {c \in CustomRoles : role[c].tenant = t /\ role[c].perms \cap D # {}}

\* DELETE FROM permissions waits for another deletion of the row; no row left
\* for the tenant is a 404.
DeletePermissionRow(r) ==
    /\ pc[r] = "perm_delete"
    /\ \A q \in Requests \ {r} : Deleting(q) => arg[q].perms \cap arg[r].perms = {}
    /\ LET D == {p \in arg[r].perms : permission[p] = ses[r].tenant}
       IN  IF D = {} THEN Answer(r)
                     ELSE Goto(r, "perm_clean", [NoArg EXCEPT !.perms = D])
    /\ UNCHANGED <<tables, catalogVars>>

\* UPDATE roles begins: it looks at the rows committed by now.
FindRoles(r) ==
    /\ pc[r] = "perm_clean"
    /\ Goto(r, "perm_lock",
            [NoArg EXCEPT !.perms = arg[r].perms,
                          !.roles = RolesWith(ses[r].tenant, arg[r].perms)])
    /\ UNCHANGED <<tables, catalogVars>>

\* It locks them, after the deletions that hold one of them, and rewrites those
\* that still match.
LockRoles(r) ==
    /\ pc[r] = "perm_lock"
    /\ \A c \in arg[r].roles : ~Locked(c)
    /\ Goto(r, "perm_commit",
            [NoArg EXCEPT !.perms = arg[r].perms,
                          !.roles = arg[r].roles \cap RolesWith(ses[r].tenant, arg[r].perms)])
    /\ UNCHANGED <<tables, catalogVars>>

\* COMMIT: the permission goes, and leaves the roles that were found.
CommitDeletion(r) ==
    /\ pc[r] = "perm_commit"
    /\ permission' = [p \in CustomPerms |->
                         IF p \in arg[r].perms THEN Gone ELSE permission[p]]
    /\ role' = CleanRoles(arg[r].roles, arg[r].perms)
    /\ tainted' = tainted \cup {q \in Requests : HasValidated(q, arg[r].perms)}
    /\ Answer(r)
    /\ UNCHANGED <<tenants, utr, granted, raced>>

----------------------------------------------------------------------------
(* Reads; none needs a permission.                                         *)

Owner(x) == IF x \in SystemRoles THEN NoTenant ELSE role[x].tenant

ListForTenant(t, includeGlobal) ==
    {Shown(x, "roles", Owner(x)) : x \in {y \in RoleIds : GetByIDForTenant(y, t, includeGlobal)}}

ListRoles(r) ==
    /\ pc[r] = "handler"
    /\ Show(r, ListForTenant(ses[r].tenant, CanSeePlatformInternals(r)))
    /\ UNCHANGED <<tables, catalogVars>>

GetRole(r) ==
    /\ pc[r] = "handler"
    /\ \E x \in RoleIds :
          IF GetByIDForTenant(x, ses[r].tenant, CanSeePlatformInternals(r))
          THEN Show(r, {Shown(x, "roles", Owner(x))})
          ELSE Answer(r)
    /\ UNCHANGED <<tables, catalogVars>>

PermissionOwner(p) == IF p \in SystemPerms THEN NoTenant ELSE permission[p]

VisiblePermissions(t) == {p \in Perms : PermissionVisible(p, t)}

ListPermissions(r) ==
    /\ pc[r] = "handler"
    /\ Show(r, {Record(PermissionOwner(p)) : p \in VisiblePermissions(ses[r].tenant)})
    /\ UNCHANGED <<tables, catalogVars>>

GetPermission(r) ==
    /\ pc[r] = "handler"
    /\ \E p \in Perms : IF PermissionVisible(p, ses[r].tenant)
                         THEN Show(r, {Record(PermissionOwner(p))})
                         ELSE Answer(r)
    /\ UNCHANGED <<tables, catalogVars>>

CatalogStep(r) ==
    \/ CreateRole(r) \/ CreateRoleValidate(r) \/ InsertRole(r)
    \/ UpdateRole(r) \/ UpdateRoleValidate(r) \/ WriteRole(r)
    \/ DeleteRole(r) \/ DeleteRoleCount(r) \/ SoftDelete(r)
    \/ CreatePermission(r) \/ UpdatePermission(r)
    \/ DeletePermission(r) \/ DeletePermissionRow(r)
    \/ FindRoles(r) \/ LockRoles(r) \/ CommitDeletion(r)
    \/ ListRoles(r) \/ GetRole(r) \/ ListPermissions(r) \/ GetPermission(r)

=============================================================================
