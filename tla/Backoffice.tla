------------------------------ MODULE Backoffice ------------------------------
(***************************************************************************)
(* The back office: the request pipeline, roles and permissions, users and *)
(* memberships, tenants, alarm rules and notifications over one database.  *)
(* Requests interleave at every statement; deleting a tenant takes the     *)
(* rows that reference it with it.                                         *)
(***************************************************************************)
EXTENDS RoleCatalog, Membership

CONSTANTS
    AlarmRules,      \* ids an alarm rule may get
    Notifications    \* ids of notifications

VARIABLES
    dropped,         \* tenants that were deleted; an id is never used again
    rule,            \* alarm_rules: the owner of each, NoTenant, or Gone
    notification     \* notifications: tenant and status

recordVars == <<dropped, rule, notification>>
vars == <<tables, reqVars, catalogVars, users, recordVars>>

----------------------------------------------------------------------------
(* Tenants.                                                                *)

\* Another tenant than the one of the request is for cross-tenant roles.
MayReach(r, t) == IsCrossTenantRole(r) \/ t = ses[r].tenant

InsertTenant == \E t \in Tenants \ (tenants \cup dropped) : tenants' = tenants \cup {t}

CreateTenant(r) ==
    /\ RBACCheck(r, "perm_tenants_manage")
    /\ InsertTenant
    /\ Answer(r)
    /\ UNCHANGED <<role, utr, catalogVars, users, recordVars>>

\* The row is read, the fields that were sent are applied to the copy and all
\* of it is written back; the texts are left out.
EditTenant(r, t) ==
    IF t \in tenants
    THEN Goto(r, "tenant_write", [NoArg EXCEPT !.tenant = t])
    ELSE Answer(r)

\* PATCH /tenants/:id.
UpdateTenant(r) ==
    /\ RBACCheck(r, "perm_tenants_manage")
    /\ \E t \in Tenants : IF MayReach(r, t) THEN EditTenant(r, t) ELSE Answer(r)
    /\ UNCHANGED <<tables, catalogVars, users, recordVars>>

UpdateTenantWrite(r) ==
    /\ pc[r] = "tenant_write"
    /\ Answer(r)
    /\ UNCHANGED <<tables, catalogVars, users, recordVars>>

\* user_tenant_roles.user_id does not cascade: a user of the tenant with a
\* membership elsewhere makes the DELETE fail.
Deletable(t) ==
    /\ t \in tenants
    /\ ~\E m \in Rows : /\ Exists(m)
                        /\ utr[m].tenant # t
                        /\ users[utr[m].user].tenant = t

\* Mistake: user_tenant_roles_tenant_id_fkey without its CASCADE, and unchecked.
UtrWithoutKeeps(t) == utr

\* The rows of user_tenant_roles once tenant t is gone.
UtrWithout(t) ==
    [m \in Rows |-> IF utr[m].tenant = t THEN [NoRow EXCEPT !.status = Gone] ELSE utr[m]]

\* What the role writers lose with the permissions D.
TaintedBy(D) == tainted \cup {q \in Requests : HasValidated(q, D)}

\* The DELETE and its cascades, which wait for the deletion of a permission of
\* the tenant.  notifications has no foreign key.
DropTenant(t) ==
    /\ \A q \in Requests : Deleting(q) => ses[q].tenant # t
    /\ tenants' = tenants \ {t}
    /\ dropped' = dropped \cup {t}
    /\ role' = [c \in CustomRoles |-> IF role[c].tenant = t
                                       THEN [NoRoleRow EXCEPT !.tenant = Gone] ELSE role[c]]
    /\ permission' = [p \in CustomPerms |-> IF permission[p] = t THEN Gone ELSE permission[p]]
    /\ users' = [u \in Users |-> IF users[u].tenant = t
                                 THEN [NoUserRow EXCEPT !.state = "gone"] ELSE users[u]]
    /\ utr' = UtrWithout(t)
    /\ rule' = [a \in AlarmRules |-> IF rule[a] = t THEN Gone ELSE rule[a]]
    /\ tainted' = TaintedBy({p \in CustomPerms : permission[p] = t})
    /\ UNCHANGED <<granted, raced, notification>>

DeleteTenant(r) ==
    /\ RBACCheck(r, "perm_tenants_manage")
    /\ \E t \in Tenants :
          IF MayReach(r, t) /\ Deletable(t)
          THEN DropTenant(t)
          ELSE UNCHANGED <<tables, catalogVars, users, recordVars>>
    /\ Answer(r)

----------------------------------------------------------------------------
(* Alarm rules and notifications.                                          *)

InsertRule(t) ==
    /\ t \in tenants
    /\ \E a \in AlarmRules : rule[a] = NoTenant /\ rule' = [rule EXCEPT ![a] = t]

\* POST /alarm-rules.
CreateAlarmRule(r) ==
    /\ RBACCheck(r, "perm_users_manage")
    /\ InsertRule(ses[r].tenant)
    /\ Answer(r)
    /\ UNCHANGED <<tables, catalogVars, users, dropped, notification>>

RulesOf(t) == {a \in AlarmRules : rule[a] = t}

\* Read, change the fields that were sent, write all of them; texts left out.
EditRule(r, a) ==
    IF a \in RulesOf(ses[r].tenant)
    THEN Goto(r, "rule_write", [NoArg EXCEPT !.id = a])
    ELSE Answer(r)

\* PATCH /alarm-rules/:id.
UpdateAlarmRule(r) ==
    /\ RBACCheck(r, "perm_users_manage")
    /\ \E a \in AlarmRules : EditRule(r, a)
    /\ UNCHANGED <<tables, catalogVars, users, recordVars>>

UpdateAlarmRuleWrite(r) ==
    /\ pc[r] = "rule_write"
    /\ Answer(r)
    /\ UNCHANGED <<tables, catalogVars, users, recordVars>>

RemoveRule(a, t) == rule' = IF a \in RulesOf(t) THEN [rule EXCEPT ![a] = Gone] ELSE rule

\* DELETE /alarm-rules/:id.
DeleteAlarmRule(r) ==
    /\ RBACCheck(r, "perm_users_manage")
    /\ \E a \in AlarmRules : RemoveRule(a, ses[r].tenant)
    /\ Answer(r)
    /\ UNCHANGED <<tables, catalogVars, users, dropped, notification>>

NotificationsOf(t) == {n \in Notifications : notification[n].tenant = t}

\* One UPDATE each, idempotent; an acknowledgement does not reopen.
Ack(n)   == notification' = [notification EXCEPT ![n].status =
                                IF @ = "unread" THEN "acknowledged" ELSE @]
Close(n) == notification' = [notification EXCEPT ![n].status = "closed"]

\* POST /notifications/:id/ack and .../close need no permission.
AckNotification(r) ==
    /\ pc[r] = "handler"
    /\ \E n \in NotificationsOf(ses[r].tenant) : Ack(n)
    /\ Answer(r)
    /\ UNCHANGED <<tables, catalogVars, users, dropped, rule>>

CloseNotification(r) ==
    /\ pc[r] = "handler"
    /\ \E n \in NotificationsOf(ses[r].tenant) : Close(n)
    /\ Answer(r)
    /\ UNCHANGED <<tables, catalogVars, users, dropped, rule>>

----------------------------------------------------------------------------
(* Reads, as whose records are in the answer.                              *)

GetAllTenants(r) ==
    /\ RBACCheck(r, "perm_tenants_view")
    /\ Show(r, {Record(t) : t \in {u \in tenants : MayReach(r, u)}})
    /\ UNCHANGED <<tables, catalogVars, users, recordVars>>

GetTenant(r) ==
    /\ RBACCheck(r, "perm_tenants_view")
    /\ \E t \in Tenants : IF MayReach(r, t) /\ t \in tenants
                          THEN Show(r, {Record(t)})
                          ELSE Answer(r)
    /\ UNCHANGED <<tables, catalogVars, users, recordVars>>

\* The list, and a rule of it.
ListAlarmRules(r) ==
    /\ pc[r] = "handler"
    /\ Show(r, {Record(rule[a]) : a \in RulesOf(ses[r].tenant)})
    /\ UNCHANGED <<tables, catalogVars, users, recordVars>>

\* The list, one of it and the count of the unread ones.
ListNotifications(r) ==
    /\ pc[r] = "handler"
    /\ Show(r, {Record(notification[n].tenant) : n \in NotificationsOf(ses[r].tenant)})
    /\ UNCHANGED <<tables, catalogVars, users, recordVars>>

RecordStep(r) ==
    \/ CreateTenant(r) \/ UpdateTenant(r) \/ UpdateTenantWrite(r) \/ DeleteTenant(r)
    \/ CreateAlarmRule(r) \/ UpdateAlarmRule(r) \/ UpdateAlarmRuleWrite(r)
    \/ DeleteAlarmRule(r) \/ AckNotification(r) \/ CloseNotification(r)
    \/ GetAllTenants(r) \/ GetTenant(r) \/ ListAlarmRules(r) \/ ListNotifications(r)

----------------------------------------------------------------------------

\* A request that ends no longer holds a validated permission.
Forget(r) == tainted' = IF pc'[r] = "idle" THEN tainted \ {r} ELSE tainted

Serve(r) ==
    \/ AccessStep(r) /\ Forget(r) /\ UNCHANGED <<permission, granted, raced, users, recordVars>>
    \/ CatalogStep(r) /\ UNCHANGED <<users, recordVars>>
    \/ MembershipStep(r) /\ UNCHANGED <<catalogVars, recordVars>>
    \/ RecordStep(r)

Next == \E r \in Requests : Serve(r)

----------------------------------------------------------------------------
(* Properties.                                                             *)

Pcs == {"idle", "member", "operator", "target", "load", "handler", "answered",
        "create_validate", "create_insert", "update_validate", "update_write",
        "delete_count", "delete_write",
        "perm_delete", "perm_clean", "perm_lock", "perm_commit",
        "assign_check", "assign_insert", "role_assignable", "role_check", "role_write",
        "revoke_write", "status_write", "user_create", "user_assignable", "user_write",
        "user_delete", "tenant_write", "rule_write"}

\* What the tables and the request contexts may hold.  Beyond the shapes: one
\* active membership per user and tenant (the partial unique index), and no
\* membership of a platform role outside the platform tenant (the trigger).
BackofficeTypeOK ==
    /\ tenants \subseteq Tenants
    /\ \A c \in CustomRoles : /\ role[c].tenant \in Tenants \cup {NoTenant, Gone}
                              /\ role[c].perms \subseteq Perms
                              /\ role[c].alive \in BOOLEAN
    /\ \A m \in Rows :
         Exists(m) =>
            /\ utr[m].user \in Users /\ utr[m].role \in RoleIds
            /\ utr[m].status \in {"active", "pending", "suspended", "revoked"}
            /\ utr[m].role \in GlobalRoles \cup PlatformOnly => utr[m].tenant = Platform
            /\ \A n \in Rows \ {m} :
                 ~(Active(m, utr[n].user, utr[n].tenant) /\ utr[n].status = "active")
    /\ \A r \in Requests : pc[r] \in Pcs /\ ses[r].perms \subseteq Perms

\* No escalation (app/roles ensureGrantable): a system permission that only
\* global roles hold is found in a custom role only if a caller with a global
\* role put it in some role, whatever callers with other roles create and edit
\* from copies they read earlier.
OperatorPerms ==
    SystemPerms \ UNION {SystemRolePerms[x] : x \in SystemRoles \ GlobalRoles}

NoEscalation ==
    \A c \in CustomRoles : role[c].perms \cap OperatorPerms \subseteq granted

\* Deleting a permission takes it out of the roles (permissions repository,
\* Delete): a live role names a permission that is not in the catalogue only if
\* its writer had validated the permission before the deletion committed, and
\* wrote the role after the deletion had looked for the roles that hold it.
DanglingOnlyByRace ==
    \A c \in CustomRoles \ raced :
       role[c].alive =>
          \A p \in role[c].perms : p \in SystemPerms \/ permission[p] = role[c].tenant

\* The platform's memberships are its own (user_roles queries): a row whose
\* role is global, or becomes so, changes only in a step of a request whose
\* effective role is super_admin, even when the row a handler looked at was an
\* ordinary one; a row that goes with its tenant is the exception.
PlatformGuarded ==
    [][ \A m \in Rows :
          utr'[m] # utr[m] /\ {utr[m].role, utr'[m].role} \cap GlobalRoles # {} =>
             \/ utr[m].tenant \in tenants \ tenants'
             \/ \E r \in Requests : pc'[r] # pc[r] /\ CanSeePlatformInternals(r) ]_vars

\* No answer to a caller other than super_admin shows a global role, be it of
\* the catalogue or of a membership, whichever tenant the row was found in
\* (the legacy column users.role is shown as it is).
Cloaked ==
    \A r \in Requests :
       \A v \in arg[r].shown :
          v.role \in GlobalRoles => CanSeePlatformInternals(r) \/ v.from = "label"

\* Tenant isolation (every query of the back office): an answer to a caller
\* without a cross-tenant role holds records of the caller's tenant and of the
\* shared catalogue only, although users may belong to several tenants and
\* permissions and roles change hands while the request runs.
Isolated ==
    \A r \in Requests :
       \A v \in arg[r].shown :
          v.owner \in {NoTenant, ses[r].tenant} \/ IsCrossTenantRole(r)

\* No role, permission, membership, user or alarm rule outlives its tenant: the
\* handlers that looked at the tenant before its deletion write none of them for
\* it after (foreign keys and cascades of the schema).  Notifications have no
\* foreign key and do outlive it.
NoOrphans ==
    /\ \A c \in CustomRoles : role[c].alive => role[c].tenant \in tenants
    /\ \A p \in CustomPerms : permission[p] \in tenants \cup {NoTenant, Gone}
    /\ \A m \in Rows : Exists(m) =>
          /\ utr[m].tenant \in tenants
          /\ users[utr[m].user].state \in {"alive", "deleted"}
    /\ \A u \in Users : users[u].tenant \in tenants \cup {NoTenant}
    /\ \A a \in AlarmRules : rule[a] \in tenants \cup {NoTenant, Gone}

\* Retired: the role was deleted, by itself or with its tenant, and nobody who
\* found it alive before is about to write it.
Retired(c) ==
    /\ ~role[c].alive /\ role[c].tenant # NoTenant
    /\ \A r \in Requests :
          ~(pc[r] \in {"assign_insert", "role_write", "user_create"} /\ arg[r].role = c)

\* DeleteRole counts the assignments in one statement and deletes in another, so
\* that a role may go while it is being assigned; but only the requests that had
\* checked it before then still assign it.  A retired role stays so, and no
\* assignment, change of role or new user ever brings it one more membership.
RetiredForGood ==
    [][ \A c \in CustomRoles :
          Retired(c) => /\ Retired(c)'
                        /\ \A m \in Rows : utr'[m].role = c => utr[m].role = c ]_vars

\* The limit of custom roles is counted in one statement and the role inserted in
\* another (CreateRole): with n requests at once no creation takes a tenant past
\* MaxCustomRolesPerTenant - 1 + n roles, and one at a time keeps the limit.
RoleLimitBounded ==
    [][ \A t \in Tenants :
          CountCustomByTenant(t)' > CountCustomByTenant(t) =>
             CountCustomByTenant(t)' < MaxCustomRolesPerTenant + Cardinality(Requests) ]_vars

----------------------------------------------------------------------------
(* The database as migrations and use have left it, and no request yet.    *)

Start ==
    /\ pc  = [r \in Requests |-> "idle"]
    /\ ses = [r \in Requests |-> NoSession]
    /\ arg = [r \in Requests |-> NoArg]
    /\ served = 0
    /\ granted = {} /\ tainted = {} /\ raced = {} /\ dropped = {}
    /\ role \in [CustomRoles -> [tenant : Tenants \cup {NoTenant, Gone},
                                 perms : SUBSET (Perms \ OperatorPerms), alive : BOOLEAN]]
    /\ utr \in [Rows -> [user : Users \cup {NoUser}, tenant : Tenants \cup {NoTenant},
                         role : RoleIds \cup {NoRole},
                         status : {"active", "pending", "suspended", "revoked", "none"}]]
    /\ DOMAIN permission = CustomPerms /\ DOMAIN rule = AlarmRules
    /\ DOMAIN users = Users /\ \A u \in Users : DOMAIN users[u] = DOMAIN NoUserRow
    /\ BackofficeTypeOK /\ DanglingOnlyByRace /\ NoOrphans

BackofficeSpec == Start /\ [][Next]_vars

=============================================================================
