----------------------------- MODULE Membership -----------------------------
(***************************************************************************)
(* Users and their memberships (app/users, usecases/user_roles and their   *)
(* repositories).  Rows of a global role belong to the platform: whoever   *)
(* is not super_admin must neither see nor change them, and every query    *)
(* carries that predicate itself, since the row a handler looked at may be *)
(* another one when its write runs.                                        *)
(***************************************************************************)
EXTENDS Access

CONSTANTS
    RoleInputs,   \* the roles a request may name
    Batches       \* the user lists of a bulk assignment

ASSUME MembershipAssumption ==
    RoleInputs \subseteq RoleIds /\ Batches \subseteq SUBSET Users

VARIABLE users    \* the table users: legacy tenant and role, life

NoUserRow == [tenant |-> NoTenant, label |-> NoRole, state |-> "unborn"]

UtrStatus == [active |-> "active", inactive |-> "revoked", suspended |-> "suspended"]

----------------------------------------------------------------------------
(* The predicates of the queries.                                          *)

Visible(row, includeGlobal) == row.role \notin GlobalRoles \/ includeGlobal

\* CreateQuery and UpdateQuery: u holds a global role somewhere, not revoked.
PlatformIdentity(u) ==
    \E m \in Rows : /\ utr[m].user = u
                    /\ utr[m].status # "revoked"
                    /\ utr[m].role \in GlobalRoles

FindByID(m, t, includeGlobal) ==
    Exists(m) /\ Visible(utr[m], includeGlobal) /\ utr[m].tenant = t

\* Mistake: a deleted role is looked up like a live one.
EnsureAssignableDeleted(x, t, includeGlobal) ==
    /\ OwnOrSystem(x, t)
    /\ TenantCanUseRole(t, x)
    /\ x \notin GlobalRoles \/ includeGlobal

EnsureAssignable(x, t, includeGlobal) == GetByIDForTenant(x, t, includeGlobal)

\* The repository's own check: the platform rule answers 403, the others 400.
CheckRoleAllowedForTenant(x, t, includeGlobal) ==
    /\ Alive(x)
    /\ OwnOrSystem(x, t)
    /\ x \notin GlobalRoles \/ includeGlobal
    /\ TenantCanUseRole(t, x)

HasActive(u, t) == \E m \in Rows : Active(m, u, t)

\* users.GetByID, its LATERAL join: the active membership in the tenant of the
\* request, else, for a cross-tenant caller, one of the others.
ActiveRows(u) == {utr[m] : m \in {n \in Rows : utr[n].user = u /\ utr[n].status = "active"}}
Lateral(u, t, crossTenant) ==
    LET own == {row \in ActiveRows(u) : row.tenant = t}
    IN  IF own # {} THEN own
        ELSE IF crossTenant /\ ActiveRows(u) # {} THEN ActiveRows(u)
        ELSE {NoRow}

\* Mistake: the predicate on global roles is left out.
GetByIDOpen(u, row, t, crossTenant, includeGlobal) ==
    /\ users[u].state = "alive"
    /\ users[u].tenant = t \/ row # NoRow \/ crossTenant

GetByID(u, row, t, crossTenant, includeGlobal) ==
    /\ users[u].state = "alive"
    /\ users[u].tenant = t \/ row # NoRow \/ crossTenant
    /\ Visible(row, includeGlobal)

\* COALESCE(u.tenant_id, utr.tenant_id, $2)
TargetTenant(u, row, t) ==
    IF users[u].tenant # NoTenant THEN users[u].tenant
    ELSE IF row # NoRow THEN row.tenant ELSE t

\* COALESCE(utr.role_id, u.role)
ShownRole(u, row) ==
    LET owner == IF row = NoRow THEN users[u].tenant ELSE row.tenant
    IN  IF row.role # NoRole THEN Shown(row.role, "membership", owner)
                             ELSE Shown(users[u].label, "label", owner)

\* The WHERE of users.Update and users.Delete.
Writable(u, t) ==
    /\ users[u].state = "alive"
    /\ users[u].tenant = t \/ HasActive(u, t)

----------------------------------------------------------------------------
(* Memberships: /user-roles.                                               *)

\* POST /user-roles and /user-roles/bulk: the tenant of the body must be the
\* one of the request, and the role is checked first.
Assign(r, U) ==
    \E t \in Tenants, x \in RoleInputs :
       IF t = ses[r].tenant /\ EnsureAssignable(x, t, CanSeePlatformInternals(r))
       THEN Goto(r, "assign_check", [NoArg EXCEPT !.users = U, !.role = x])
       ELSE Answer(r)

AssignUserRole(r) ==
    /\ RBACCheck(r, "perm_users_manage")
    /\ \E u \in Users : Assign(r, {u})
    /\ UNCHANGED <<tables, users>>

BulkAssignUserRoles(r) ==
    /\ RBACCheck(r, "perm_users_manage")
    /\ \E U \in Batches : Assign(r, U)
    /\ UNCHANGED <<tables, users>>

AssignCheck(r) ==
    /\ pc[r] = "assign_check"
    /\ IF CheckRoleAllowedForTenant(arg[r].role, ses[r].tenant, CanSeePlatformInternals(r))
       THEN Goto(r, "assign_insert", arg[r])
       ELSE Answer(r)
    /\ UNCHANGED <<tables, users>>

\* What one INSERT of CreateQuery needs: its own guard, the foreign keys, the
\* unique index on active memberships and the trigger on the platform rule.
Insertable(u, t, x, includeGlobal) ==
    /\ includeGlobal \/ ~PlatformIdentity(u)
    /\ users[u].state \in {"alive", "deleted"} /\ t \in tenants
    /\ x \in SystemRoles \/ role[x].tenant \in tenants
    /\ ~HasActive(u, t)
    /\ TenantCanUseRole(t, x)

\* Create, and BulkCreate's transaction: every user of the list or none.
AssignInsert(r) ==
    /\ pc[r] = "assign_insert"
    /\ LET U == arg[r].users
           t == ses[r].tenant
       IN  IF \A u \in U : Insertable(u, t, arg[r].role, CanSeePlatformInternals(r))
           THEN \E f \in [U -> {m \in Rows : utr[m] = NoRow}] :
                   /\ \A u, v \in U : u # v => f[u] # f[v]
                   /\ utr' = [m \in Rows |->
                         IF \E u \in U : f[u] = m
                         THEN [user   |-> CHOOSE u \in U : f[u] = m, tenant |-> t,
                               role   |-> arg[r].role, status |-> "active"]
                         ELSE utr[m]]
           ELSE UNCHANGED utr
    /\ Answer(r)
    /\ UNCHANGED <<tenants, role, users>>

\* The row is found in the tenant, and is not the caller's own.
RoleChange(r, m, x) ==
    IF /\ FindByID(m, ses[r].tenant, CanSeePlatformInternals(r))
       /\ utr[m].user # ses[r].user
    THEN Goto(r, "role_assignable", [NoArg EXCEPT !.id = m, !.role = x])
    ELSE Answer(r)

\* PUT /user-roles/:id.
UpdateUserRole(r) ==
    /\ RBACCheck(r, "perm_users_manage")
    /\ \E m \in Rows, x \in RoleInputs : RoleChange(r, m, x)
    /\ UNCHANGED <<tables, users>>

UpdateUserRoleAssignable(r) ==
    /\ pc[r] = "role_assignable"
    /\ IF EnsureAssignable(arg[r].role, ses[r].tenant, CanSeePlatformInternals(r))
       THEN Goto(r, "role_check", arg[r])
       ELSE Answer(r)
    /\ UNCHANGED <<tables, users>>

UpdateUserRoleCheck(r) ==
    /\ pc[r] = "role_check"
    /\ IF CheckRoleAllowedForTenant(arg[r].role, ses[r].tenant, CanSeePlatformInternals(r))
       THEN Goto(r, "role_write", arg[r])
       ELSE Answer(r)
    /\ UNCHANGED <<tables, users>>

\* UpdateQuery: the row's present role and its owner decide again.
UpdateQuery(m, x, includeGlobal) ==
    IF /\ Exists(m)
       /\ Visible(utr[m], includeGlobal)
       /\ includeGlobal \/ ~PlatformIdentity(utr[m].user)
       /\ TenantCanUseRole(utr[m].tenant, x)
    THEN utr' = [utr EXCEPT ![m].role = x]
    ELSE UNCHANGED utr

UpdateUserRoleWrite(r) ==
    /\ pc[r] = "role_write"
    /\ UpdateQuery(arg[r].id, arg[r].role, CanSeePlatformInternals(r))
    /\ Answer(r)
    /\ UNCHANGED <<tenants, role, users>>

\* One's own membership may be revoked.
Revocation(r, m) ==
    IF FindByID(m, ses[r].tenant, CanSeePlatformInternals(r))
    THEN Goto(r, "revoke_write", [NoArg EXCEPT !.id = m])
    ELSE Answer(r)

\* DELETE /user-roles/:id.
RevokeUserRole(r) ==
    /\ RBACCheck(r, "perm_users_manage")
    /\ \E m \in Rows : Revocation(r, m)
    /\ UNCHANGED <<tables, users>>

\* Mistake: the write relies on the lookup before it.
RevokeQueryUnguarded(m, t, includeGlobal) ==
    IF Exists(m) /\ utr[m].tenant = t
    THEN utr' = [utr EXCEPT ![m].status = "revoked"]
    ELSE UNCHANGED utr

RevokeQuery(m, t, includeGlobal) ==
    IF Exists(m) /\ utr[m].tenant = t /\ Visible(utr[m], includeGlobal)
    THEN utr' = [utr EXCEPT ![m].status = "revoked"]
    ELSE UNCHANGED utr

RevokeWrite(r) ==
    /\ pc[r] = "revoke_write"
    /\ RevokeQuery(arg[r].id, ses[r].tenant, CanSeePlatformInternals(r))
    /\ Answer(r)
    /\ UNCHANGED <<tenants, role, users>>

----------------------------------------------------------------------------
(* Users: /users.                                                          *)

\* Not the caller's own; GetByID finds the tenant.
SvcUpdateUserStatus(r, u, s) ==
    \E row \in Lateral(u, ses[r].tenant, IsCrossTenantRole(r)) :
       IF /\ u # ses[r].user
          /\ GetByID(u, row, ses[r].tenant, IsCrossTenantRole(r), CanSeePlatformInternals(r))
       THEN Goto(r, "status_write",
                 [NoArg EXCEPT !.users = {u}, !.status = UtrStatus[s],
                               !.tenant = TargetTenant(u, row, ses[r].tenant)])
       ELSE Answer(r)

\* PATCH /users/:id/status.
UpdateUserStatus(r) ==
    /\ RBACCheck(r, "perm_users_manage")
    /\ \E u \in Users, s \in DOMAIN UtrStatus : SvcUpdateUserStatus(r, u, s)
    /\ UNCHANGED <<tables, users>>

\* UpdateStatusQuery: every row of the pair that is neither pending nor hidden;
\* two of them cannot both become active.
UpdateStatusQuery(u, t, s, includeGlobal) ==
    LET hit == {m \in Rows : /\ utr[m].user = u /\ utr[m].tenant = t
                             /\ utr[m].status # "pending"
                             /\ Visible(utr[m], includeGlobal)}
        taken == {m \in Rows \ hit : Active(m, u, t)}
    IN  IF s = "active" /\ Cardinality(hit \cup taken) > 1
        THEN UNCHANGED utr
        ELSE utr' = [m \in Rows |-> IF m \in hit THEN [utr[m] EXCEPT !.status = s]
                                                 ELSE utr[m]]

UpdateUserStatusWrite(r) ==
    /\ pc[r] = "status_write"
    /\ \E u \in arg[r].users :
          UpdateStatusQuery(u, arg[r].tenant, arg[r].status, CanSeePlatformInternals(r))
    /\ Answer(r)
    /\ UNCHANGED <<tenants, role, users>>

SvcCreateUser(r, x) ==
    IF EnsureAssignable(x, ses[r].tenant, CanSeePlatformInternals(r))
    THEN Goto(r, "user_create", [NoArg EXCEPT !.role = x])
    ELSE Answer(r)

\* POST /users.
CreateUser(r) ==
    /\ RBACCheck(r, "perm_users_manage")
    /\ \E x \in RoleInputs : SvcCreateUser(r, x)
    /\ UNCHANGED <<tables, users>>

\* CreateWithRole: the user and its active membership in one transaction.
CreateWithRole(r) ==
    /\ pc[r] = "user_create"
    /\ LET t == ses[r].tenant
           x == arg[r].role
       IN  IF /\ t \in tenants /\ TenantCanUseRole(t, x)
              /\ x \in SystemRoles \/ role[x].tenant \in tenants
           THEN \E u \in Users, m \in Rows :
                   /\ users[u] = NoUserRow /\ utr[m] = NoRow
                   /\ users' = [users EXCEPT ![u] =
                                  [tenant |-> t, label |-> x, state |-> "alive"]]
                   /\ utr' = [utr EXCEPT ![m] = [user |-> u, tenant |-> t, role |-> x,
                                                 status |-> "active"]]
           ELSE UNCHANGED <<users, utr>>
    /\ Answer(r)
    /\ UNCHANGED <<tenants, role>>

\* service.UpdateUser, the lookup.  Without a new role the one GetByID showed
\* is written back into users.role.
LookupForUpdate(r, u, x, crossTenant) ==
    \E row \in Lateral(u, ses[r].tenant, crossTenant) :
       LET a == [NoArg EXCEPT !.users = {u}, !.tenant = TargetTenant(u, row, ses[r].tenant)]
       IN  IF GetByID(u, row, ses[r].tenant, crossTenant, CanSeePlatformInternals(r))
           THEN IF x = NoRole
                THEN Goto(r, "user_write", [a EXCEPT !.role = ShownRole(u, row).role])
                ELSE Goto(r, "user_assignable", [a EXCEPT !.role = x])
           ELSE Answer(r)

UpdateUser(r) ==
    /\ RBACCheck(r, "perm_users_manage")
    /\ \E u \in Users, x \in RoleInputs \cup {NoRole} :
          LookupForUpdate(r, u, x, IsCrossTenantRole(r))
    /\ UNCHANGED <<tables, users>>

\* PATCH /users/me: no permission, no new role, the tenant of the request only.
UpdateMe(r) ==
    /\ pc[r] = "handler"
    /\ LookupForUpdate(r, ses[r].user, NoRole, FALSE)
    /\ UNCHANGED <<tables, users>>

\* A new role is checked for the tenant of the user, not of the request.
UpdateUserAssignable(r) ==
    /\ pc[r] = "user_assignable"
    /\ IF EnsureAssignable(arg[r].role, arg[r].tenant, CanSeePlatformInternals(r))
       THEN Goto(r, "user_write", arg[r])
       ELSE Answer(r)
    /\ UNCHANGED <<tables, users>>

UpdateUserWrite(r) ==
    /\ pc[r] = "user_write"
    /\ users' = [u \in Users |-> IF u \in arg[r].users /\ Writable(u, arg[r].tenant)
                                 THEN [users[u] EXCEPT !.label = arg[r].role]
                                 ELSE users[u]]
    /\ Answer(r)
    /\ UNCHANGED tables

\* The lookup decides, the write only compares the tenant.
SvcDeleteUser(r, u) ==
    \E row \in Lateral(u, ses[r].tenant, IsCrossTenantRole(r)) :
       IF GetByID(u, row, ses[r].tenant, IsCrossTenantRole(r), CanSeePlatformInternals(r))
       THEN Goto(r, "user_delete",
                 [NoArg EXCEPT !.users = {u},
                               !.tenant = TargetTenant(u, row, ses[r].tenant)])
       ELSE Answer(r)

\* DELETE /users/:id.
DeleteUser(r) ==
    /\ RBACCheck(r, "perm_users_manage")
    /\ \E u \in Users : SvcDeleteUser(r, u)
    /\ UNCHANGED <<tables, users>>

\* The soft delete; the memberships stay as they are.
DeleteUserWrite(r) ==
    /\ pc[r] = "user_delete"
    /\ users' = [u \in Users |-> IF u \in arg[r].users /\ Writable(u, arg[r].tenant)
                                 THEN [users[u] EXCEPT !.state = "deleted"]
                                 ELSE users[u]]
    /\ Answer(r)
    /\ UNCHANGED tables

----------------------------------------------------------------------------
(* Reads, as the roles in the answer.                                      *)

ListByTenant(t, includeGlobal) ==
    UNION {{ShownRole(u, row) : row \in {w \in Lateral(u, t, FALSE) :
                                            GetByID(u, w, t, FALSE, includeGlobal)}}
           : u \in Users}

ListPendingByTenant(t, includeGlobal) ==
    {ShownRole(utr[m].user, utr[m]) :
        m \in {n \in Rows : /\ utr[n].tenant = t /\ utr[n].status = "pending"
                            /\ users[utr[n].user].state = "alive"
                            /\ Visible(utr[n], includeGlobal)}}

FindByTenant(t, includeGlobal) ==
    {Shown(utr[m].role, "membership", utr[m].tenant) :
        m \in {n \in Rows : utr[n].tenant = t /\ Visible(utr[n], includeGlobal)}}

\* Mistake: the form before the tenant became a parameter of the query.
FindByUserAnywhere(u, t, crossTenant, includeGlobal) ==
    {Shown(utr[m].role, "membership", utr[m].tenant) :
        m \in {n \in Rows : utr[n].user = u /\ Visible(utr[n], includeGlobal)}}

FindByUser(u, t, crossTenant, includeGlobal) ==
    {Shown(utr[m].role, "membership", utr[m].tenant) :
        m \in {n \in Rows : /\ utr[n].user = u
                            /\ utr[n].tenant = t \/ crossTenant
                            /\ Visible(utr[n], includeGlobal)}}

\* users.GetByIDWithRoles shows, next to the user, the role of the membership
\* unless it was deleted.
GetByIDWithRoles(u, row) ==
    {ShownRole(u, row)} \cup
    {Shown(x, "roles", row.tenant) : x \in {y \in {row.role} : y # NoRole /\ Alive(y)}}

\* GET /users and /users/:id, with or without ?include=roles, need no permission.
ListUsers(r) ==
    /\ pc[r] = "handler"
    /\ Show(r, ListByTenant(ses[r].tenant, CanSeePlatformInternals(r)))
    /\ UNCHANGED <<tables, users>>

SvcGetUser(r, u) ==
    \E row \in Lateral(u, ses[r].tenant, IsCrossTenantRole(r)) :
       IF GetByID(u, row, ses[r].tenant, IsCrossTenantRole(r), CanSeePlatformInternals(r))
       THEN Show(r, {ShownRole(u, row)}) \/ Show(r, GetByIDWithRoles(u, row))
       ELSE Answer(r)

GetUser(r) ==
    /\ pc[r] = "handler"
    /\ \E u \in Users : SvcGetUser(r, u)
    /\ UNCHANGED <<tables, users>>

ListPendingUsers(r) ==
    /\ RBACCheck(r, "perm_users_view")
    /\ Show(r, ListPendingByTenant(ses[r].tenant, CanSeePlatformInternals(r)))
    /\ UNCHANGED <<tables, users>>

ListUserRoles(r) ==
    /\ RBACCheck(r, "perm_users_view")
    /\ Show(r, FindByTenant(ses[r].tenant, CanSeePlatformInternals(r)))
    /\ UNCHANGED <<tables, users>>

GetUserRoles(r) ==
    /\ RBACCheck(r, "perm_users_view")
    /\ \E u \in Users :
          Show(r, FindByUser(u, ses[r].tenant, IsCrossTenantRole(r),
                             CanSeePlatformInternals(r)))
    /\ UNCHANGED <<tables, users>>

MembershipStep(r) ==
    \/ AssignUserRole(r) \/ BulkAssignUserRoles(r) \/ AssignCheck(r) \/ AssignInsert(r)
    \/ UpdateUserRole(r) \/ UpdateUserRoleAssignable(r)
    \/ UpdateUserRoleCheck(r) \/ UpdateUserRoleWrite(r)
    \/ RevokeUserRole(r) \/ RevokeWrite(r)
    \/ UpdateUserStatus(r) \/ UpdateUserStatusWrite(r)
    \/ CreateUser(r) \/ CreateWithRole(r)
    \/ UpdateUser(r) \/ UpdateMe(r) \/ UpdateUserAssignable(r) \/ UpdateUserWrite(r)
    \/ DeleteUser(r) \/ DeleteUserWrite(r)
    \/ ListUsers(r) \/ GetUser(r) \/ ListPendingUsers(r)
    \/ ListUserRoles(r) \/ GetUserRoles(r)

=============================================================================
