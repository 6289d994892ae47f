------------------------------- MODULE Access -------------------------------
(***************************************************************************)
(* The pipeline every back-office request goes through before its handler  *)
(* runs (api/middleware and security): the caller's membership in the      *)
(* tenant of the X-Tenant-ID header is looked up, failing that the caller  *)
(* is tried as a platform operator, then the permissions of the effective  *)
(* role are loaded into the request context, and the route's RBACCheck     *)
(* compares them.  Every query is a step of its own: between two of them   *)
(* the tables may be changed by another request, and everything after the  *)
(* last one works on the copy kept in the context.                         *)
(***************************************************************************)
EXTENDS Naturals, FiniteSets

CONSTANTS
    Requests,      \* the requests served at the same time
    Users,         \* rows of users, existing or not yet created
    Tenants,       \* rows of tenants, existing or not yet created
    Platform,      \* the tenant with is_platform_tenant
    CustomRoles,   \* ids a custom role may get
    CustomPerms,   \* ids a custom permission may get
    Rows,          \* ids a row of user_tenant_roles may get
    Callers,       \* <<user, tenant>>: who sends requests, and to which tenant
    NoUser, NoTenant, NoRole,
    MaxRequests    \* bound on the requests of one behaviour

ASSUME AccessAssumption ==
    /\ Platform \in Tenants
    /\ {NoTenant, "gone"} \cap Tenants = {} /\ NoTenant # "gone"
    /\ IsFiniteSet(Requests) /\ IsFiniteSet(CustomRoles) /\ IsFiniteSet(Rows)
    /\ NoUser \notin Users
    /\ Callers \subseteq Users \X Tenants
    /\ MaxRequests \in Nat

GlobalRoles  == {"super_admin", "tenant_manager", "platform_admin"}
PlatformOnly == {"admin", "operario"}
SystemRoles  == GlobalRoles \cup PlatformOnly
                  \cup {"cliente_admin", "cliente_operario"}

SystemPerms == {"perm_users_view", "perm_users_manage",
                "perm_tenants_view", "perm_tenants_manage"}

\* The seeded permissions of the system roles; no route changes them.
SystemRolePerms ==
    [x \in SystemRoles |->
        IF x \in {"super_admin", "platform_admin"} THEN SystemPerms
        ELSE IF x \in {"tenant_manager", "admin"}
             THEN SystemPerms \ {"perm_tenants_manage"}
        ELSE IF x = "cliente_admin"
             THEN {"perm_users_view", "perm_users_manage"}
        ELSE {}]

ASSUME RoleIdsAssumption ==
    /\ CustomRoles \cap SystemRoles = {}
    /\ NoRole \notin SystemRoles \cup CustomRoles
    /\ CustomPerms \cap SystemPerms = {}

RoleIds == SystemRoles \cup CustomRoles
Perms   == SystemPerms \cup CustomPerms

VARIABLES
    tenants,   \* the tenants that exist
    role,      \* the table roles, its custom rows
    utr,       \* the table user_tenant_roles
    pc,        \* where each request stands
    ses,       \* its context: caller, tenant, effective role, permissions
    arg,       \* the locals of its handler
    served     \* requests accepted so far

tables == <<tenants, role, utr>>
reqVars == <<pc, ses, arg, served>>

NoSession == [user |-> NoUser, tenant |-> NoTenant, role |-> NoRole, perms |-> {}]
NoArg == [role |-> NoRole, perms |-> {}, had |-> {}, roles |-> {}, id |-> "none",
          users |-> {}, tenant |-> NoTenant, status |-> "none", shown |-> {}]

NoRoleRow == [tenant |-> NoTenant, perms |-> {}, alive |-> FALSE]
Gone      == "gone"   \* the owner of a deleted row
NoRow     == [user |-> NoUser, tenant |-> NoTenant, role |-> NoRole,
              status |-> "none"]

----------------------------------------------------------------------------
(* Reading the role tables.                                                *)

Alive(x) == x \in SystemRoles \cup {c \in CustomRoles : role[c].alive}
OwnOrSystem(x, t) == x \in SystemRoles \cup {c \in CustomRoles : role[c].tenant = t}
RolePerms(x) == IF x \in SystemRoles THEN SystemRolePerms[x] ELSE role[x].perms

\* Mistake: the form before migration 000010, which let a client tenant use
\* admin and operario.
TenantCanUseRoleGlobalOnly(t, x) ==
    \/ x \notin GlobalRoles
    \/ t = Platform /\ t \in tenants

\* The SQL function tenant_can_use_role, shared by the queries and the trigger.
TenantCanUseRole(t, x) ==
    \/ x \notin GlobalRoles \cup PlatformOnly
    \/ t = Platform /\ t \in tenants

\* roles.GetByIDForTenant: own or system row, alive, usable, and a global one
\* only for a caller that sees the platform's internals.
GetByIDForTenant(x, t, includeGlobal) ==
    /\ Alive(x)
    /\ OwnOrSystem(x, t)
    /\ TenantCanUseRole(t, x)
    /\ x \notin GlobalRoles \/ includeGlobal

Exists(m) == utr[m].user # NoUser

Active(m, u, t) == utr[m].user = u /\ utr[m].tenant = t /\ utr[m].status = "active"

----------------------------------------------------------------------------
(* The request context.                                                    *)

EffectiveRole(x, isPlatform) ==
    IF x = "admin" /\ isPlatform THEN "platform_admin" ELSE x

CanSeePlatformInternals(r) == ses[r].role = "super_admin"
IsCrossTenantRole(r)       == ses[r].role \in GlobalRoles
Can(r, p)                  == p \in ses[r].perms

Goto(r, label, a) ==
    /\ pc'  = [pc  EXCEPT ![r] = label]
    /\ arg' = [arg EXCEPT ![r] = a]
    /\ UNCHANGED <<ses, served>>

\* The response is written and the request is over.
Answer(r) ==
    /\ pc'  = [pc  EXCEPT ![r] = "idle"]
    /\ ses' = [ses EXCEPT ![r] = NoSession]
    /\ arg' = [arg EXCEPT ![r] = NoArg]
    /\ UNCHANGED served

\* The response carries the records s, each with the role it shows, where that
\* was read from and the tenant it belongs to: kept until it is delivered.
Shown(x, source, owner) == [role |-> x, from |-> source, owner |-> owner]
Record(owner) == Shown(NoRole, "record", owner)
Show(r, s) == Goto(r, "answered", [NoArg EXCEPT !.shown = s])

----------------------------------------------------------------------------
(* The middleware chain.                                                   *)

\* JWTAuth accepted the token and left the user in the context; it does not
\* look at users.deleted_at.
Arrive(r) ==
    /\ pc[r] = "idle"
    /\ served < MaxRequests
    /\ \E w \in Callers :
          ses' = [ses EXCEPT ![r] = [NoSession EXCEPT !.user = w[1], !.tenant = w[2]]]
    /\ pc' = [pc EXCEPT ![r] = "member"]
    /\ served' = served + 1
    /\ UNCHANGED <<arg, tables>>

\* TenantFromHeader: the active membership of the caller in the tenant.  Any
\* error of that query, not only "no rows", leads to resolvePlatformOperator.
TenantFromHeader(r) ==
    /\ pc[r] = "member"
    /\ \/ \E m \in Rows :
            /\ Active(m, ses[r].user, ses[r].tenant)
            /\ ses' = [ses EXCEPT ![r].role =
                         EffectiveRole(utr[m].role, ses[r].tenant = Platform)]
            /\ pc' = [pc EXCEPT ![r] = "load"]
       \/ /\ pc' = [pc EXCEPT ![r] = "operator"]
          /\ UNCHANGED ses
    /\ UNCHANGED <<arg, served, tables>>

Operates(m, u) ==
    /\ Active(m, u, Platform)
    /\ Alive(utr[m].role)
    /\ utr[m].role \in GlobalRoles \cup {"admin"}

\* resolvePlatformOperator, first query: a global role, or admin, held in the
\* platform tenant.
ResolvePlatformOperator(r) ==
    /\ pc[r] = "operator"
    /\ \/ \E m \in Rows :
            /\ Operates(m, ses[r].user)
            /\ ses' = [ses EXCEPT ![r].role = EffectiveRole(utr[m].role, TRUE)]
            /\ pc' = [pc EXCEPT ![r] = "target"]
            /\ UNCHANGED <<arg, served>>
       \/ /\ \A m \in Rows : ~Operates(m, ses[r].user)
          /\ Answer(r)
    /\ UNCHANGED tables

\* Its second query: the target tenant must exist.
TargetExists(r) ==
    /\ pc[r] = "target"
    /\ IF ses[r].tenant \in tenants
       THEN pc' = [pc EXCEPT ![r] = "load"] /\ UNCHANGED <<ses, arg, served>>
       ELSE Answer(r)
    /\ UNCHANGED tables

\* loadRolePermissions: a role deleted meanwhile answers 500.
LoadRolePermissions(r) ==
    /\ pc[r] = "load"
    /\ IF Alive(ses[r].role)
       THEN /\ ses' = [ses EXCEPT ![r].perms = RolePerms(ses[r].role)]
            /\ pc' = [pc EXCEPT ![r] = "handler"]
            /\ UNCHANGED <<arg, served>>
       ELSE Answer(r)
    /\ UNCHANGED tables

\* RBACCheck: the route asks for p.
RBACCheck(r, p) == pc[r] = "handler" /\ Can(r, p)

\* The route asks for a permission the context does not hold.
Forbidden(r) ==
    /\ pc[r] = "handler"
    /\ \E p \in SystemPerms : ~Can(r, p)
    /\ Answer(r)
    /\ UNCHANGED tables

\* Any query of the chain or of a handler may fail, and a write may violate a
\* constraint the model leaves out (a taken name or email): the answer is an
\* error and nothing was written.
Fails(r) ==
    /\ pc[r] \notin {"idle", "answered"}
    /\ Answer(r)
    /\ UNCHANGED tables

Delivered(r) ==
    /\ pc[r] = "answered"
    /\ Answer(r)
    /\ UNCHANGED tables

AccessStep(r) ==
    \/ Arrive(r)
    \/ TenantFromHeader(r)
    \/ ResolvePlatformOperator(r)
    \/ TargetExists(r)
    \/ LoadRolePermissions(r)
    \/ Forbidden(r)
    \/ Fails(r)
    \/ Delivered(r)

=============================================================================
