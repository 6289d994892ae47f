-------------------------- MODULE BackofficeProofs --------------------------
(***************************************************************************)
(* The privilege properties of the back office and the soundness of its    *)
(* tables, for any number of requests, users, tenants, roles and           *)
(* permissions.                                                            *)
(***************************************************************************)
EXTENDS Backoffice, FiniteSetTheorems, TLAPS

----------------------------------------------------------------------------
(* The inductive invariant.                                                *)

Shape ==
    /\ DOMAIN pc = Requests /\ DOMAIN ses = Requests /\ DOMAIN arg = Requests
    /\ \A r \in Requests : DOMAIN ses[r] = {"user", "tenant", "role", "perms"}
    /\ DOMAIN role = CustomRoles
    /\ \A c \in CustomRoles : DOMAIN role[c] = {"tenant", "perms", "alive"}

Early == {"idle", "member", "operator", "target", "load"}

\* A context without a global role holds an operator permission only if one
\* was granted.
ContextOK(r) ==
    /\ pc[r] \in Early => ses[r].perms = {}
    /\ ses[r].role \notin GlobalRoles => ses[r].perms \cap OperatorPerms \subseteq granted

\* So does the copy an update compares with, and what a write is about to put
\* in a role.
LocalsOK(r) ==
    /\ pc[r] = "update_validate" => arg[r].had \cap OperatorPerms \subseteq granted
    /\ pc[r] \in {"create_insert", "update_write"} /\ ses[r].role \notin GlobalRoles =>
          arg[r].perms \cap OperatorPerms \subseteq granted

\* Only super_admin comes to write a membership with a global role.
WriterOK(r) ==
    pc[r] \in {"assign_insert", "role_write", "user_create"} /\ arg[r].role \in GlobalRoles =>
       CanSeePlatformInternals(r)

\* What an answer to request r may hold.
Fit(r, S) ==
    \A v \in S :
       /\ v.role \in GlobalRoles => CanSeePlatformInternals(r) \/ v.from = "label"
       /\ v.owner \in {NoTenant, ses[r].tenant} \/ IsCrossTenantRole(r)

AnswerOK(r) ==
    /\ pc[r] # "answered" => arg[r].shown = {}
    /\ Fit(r, arg[r].shown)

RequestOK(r) == ContextOK(r) /\ LocalsOK(r) /\ WriterOK(r) /\ AnswerOK(r)

PrivilegeInv == Shape /\ NoEscalation /\ \A r \in Requests : RequestOK(r)

----------------------------------------------------------------------------
(* How a step may end.                                                     *)

\* Nothing but request r moved.
Frame(r) ==
    /\ DOMAIN pc' = Requests /\ DOMAIN ses' = Requests /\ DOMAIN arg' = Requests
    /\ DOMAIN ses'[r] = {"user", "tenant", "role", "perms"}
    /\ \A q \in Requests \ {r} : pc'[q] = pc[q] /\ ses'[q] = ses[q] /\ arg'[q] = arg[q]

\* It is over, or it is somewhere nothing is asked of it.
Watched == Early \cup {"update_validate", "create_insert", "update_write",
                      "assign_insert", "role_write", "user_create", "answered"}

Ended(r) ==
    Frame(r) /\ pc'[r] = "idle" /\ ses'[r] = NoSession /\ arg'[r] = NoArg
Moved(r) ==
    Frame(r) /\ pc'[r] \notin Watched /\ ses'[r] = ses[r] /\ arg'[r].shown = {}

Quiet(r) == (Ended(r) \/ Moved(r)) /\ role' = role /\ granted' = granted /\ utr' = utr

LEMMA AnswerEnds ==
    ASSUME Shape, NEW r \in Requests, Answer(r)
    PROVE  Ended(r)
BY DEF Shape, Answer, Ended, Frame, NoSession

LEMMA GotoFrame ==
    ASSUME Shape, NEW r \in Requests, NEW l, NEW a, Goto(r, l, a)
    PROVE  Frame(r) /\ pc'[r] = l /\ arg'[r] = a /\ ses'[r] = ses[r]
BY DEF Shape, Goto, Frame

LEMMA GotoMoves ==
    ASSUME Shape, NEW r \in Requests, NEW l, NEW a, Goto(r, l, a), l \notin Watched, a.shown = {}
    PROVE  Moved(r)
BY GotoFrame DEF Moved

(* A request that moved on keeps the invariant if it does so itself, the   *)
(* roles do, and no grant was forgotten.                                   *)
LEMMA Preserved ==
    ASSUME PrivilegeInv, NEW r \in Requests, Frame(r), RequestOK(r)', NoEscalation',
           granted \subseteq granted',
           DOMAIN role' = CustomRoles,
           \A c \in CustomRoles : DOMAIN role'[c] = {"tenant", "perms", "alive"}
    PROVE  PrivilegeInv'
<1>1. Shape'
  BY DEF PrivilegeInv, Shape, Frame
<1>2. ASSUME NEW q \in Requests, q # r PROVE RequestOK(q)'
  <2>1. RequestOK(q) /\ pc'[q] = pc[q] /\ ses'[q] = ses[q] /\ arg'[q] = arg[q]
    BY <1>2 DEF PrivilegeInv, Frame
  <2> QED
    BY <2>1 DEF RequestOK, ContextOK, LocalsOK, WriterOK, AnswerOK, Fit, IsCrossTenantRole, CanSeePlatformInternals
<1> QED
  BY <1>1, <1>2 DEF PrivilegeInv

LEMMA IdleOK ==
    ASSUME NEW r \in Requests, Ended(r)
    PROVE  RequestOK(r)'
BY DEF Ended, NoSession, NoArg, RequestOK, ContextOK, LocalsOK, WriterOK, AnswerOK, Fit,
       IsCrossTenantRole, CanSeePlatformInternals, Early

LEMMA MovedOK ==
    ASSUME PrivilegeInv, NEW r \in Requests, Moved(r), granted \subseteq granted'
    PROVE  RequestOK(r)'
BY DEF PrivilegeInv, Moved, Watched, RequestOK, ContextOK, LocalsOK, WriterOK, AnswerOK, Fit,
       IsCrossTenantRole, CanSeePlatformInternals, Early

LEMMA QuietPreserves ==
    ASSUME PrivilegeInv, NEW r \in Requests, Quiet(r)
    PROVE  PrivilegeInv'
<1>1. Frame(r)
  BY DEF Quiet, Ended, Moved
<1>2. RequestOK(r)'
  BY IdleOK, MovedOK DEF Quiet
<1>3. NoEscalation'
  BY DEF PrivilegeInv, NoEscalation, Quiet
<1> QED
  BY <1>1, <1>2, <1>3, Preserved DEF Quiet, PrivilegeInv, Shape

\* An answer with fitting records.
LEMMA ShowFits ==
    ASSUME PrivilegeInv, NEW r \in Requests, NEW S, Fit(r, S), Show(r, S), granted' = granted
    PROVE  Frame(r) /\ RequestOK(r)'
<1>0. Shape /\ RequestOK(r)
  BY DEF PrivilegeInv
<1>1. Goto(r, "answered", [NoArg EXCEPT !.shown = S])
  BY DEF Show
<1>2. Frame(r) /\ pc'[r] = "answered" /\ ses'[r] = ses[r] /\ arg'[r].shown = S
  BY <1>0, <1>1, GotoFrame DEF NoArg
<1>3. RequestOK(r)'
  BY <1>0, <1>2 DEF RequestOK, ContextOK, LocalsOK, WriterOK, AnswerOK, Fit,
                    IsCrossTenantRole, CanSeePlatformInternals, Early
<1> QED
  BY <1>2, <1>3

----------------------------------------------------------------------------
(* The pipeline.                                                           *)

LEMMA AccessPreserves ==
    ASSUME PrivilegeInv, NEW r \in Requests, AccessStep(r), granted' = granted
    PROVE  PrivilegeInv' /\ utr' = utr
<1> USE DEF tables
<1>0. Shape /\ RequestOK(r) /\ NoEscalation
  BY DEF PrivilegeInv
<1>1. role' = role /\ utr' = utr
  BY DEF AccessStep, Arrive, TenantFromHeader, ResolvePlatformOperator, TargetExists,
         LoadRolePermissions, Forbidden, Fails, Delivered
<1>2. ASSUME Answer(r) PROVE PrivilegeInv'
  BY <1>0, <1>1, <1>2, AnswerEnds, QuietPreserves DEF Quiet
<1>3. NoEscalation' /\ DOMAIN role' = CustomRoles
        /\ \A c \in CustomRoles : DOMAIN role'[c] = {"tenant", "perms", "alive"}
  BY <1>0, <1>1 DEF NoEscalation, Shape
\* Before the permissions are loaded there are none.
<1>4. ASSUME Frame(r), pc'[r] \in Early, ses'[r].perms = {}, arg'[r] = arg[r], pc[r] \in Early
      PROVE  PrivilegeInv'
  <2>1. RequestOK(r)'
    BY <1>0, <1>4 DEF RequestOK, ContextOK, LocalsOK, WriterOK, AnswerOK, Fit, Early
  <2> QED
    BY <1>3, <1>4, <2>1, Preserved
<1>5. CASE Arrive(r)
  BY <1>0, <1>4, <1>5 DEF Arrive, Frame, Shape, NoSession, Early
<1>e. pc[r] \in Early => ses[r].perms = {}
  BY <1>0 DEF RequestOK, ContextOK
<1>6. CASE TenantFromHeader(r)
  BY <1>0, <1>e, <1>4, <1>6 DEF TenantFromHeader, Frame, Shape, Early
<1>7. CASE ResolvePlatformOperator(r)
  BY <1>0, <1>e, <1>2, <1>4, <1>7, ZenonT(40) DEF ResolvePlatformOperator, Frame, Shape, Early
<1>8. CASE TargetExists(r)
  BY <1>0, <1>e, <1>2, <1>4, <1>8 DEF TargetExists, Frame, Shape, Early
<1>9. CASE LoadRolePermissions(r)
  <2>1. CASE Alive(ses[r].role)
    <3>1. /\ Frame(r) /\ pc'[r] = "handler" /\ arg'[r] = arg[r]
          /\ ses'[r].role = ses[r].role /\ ses'[r].perms = RolePerms(ses[r].role)
      BY <1>0, <1>9, <2>1 DEF LoadRolePermissions, Frame, Shape
    <3>2. ASSUME ses[r].role \notin GlobalRoles
          PROVE  RolePerms(ses[r].role) \cap OperatorPerms \subseteq granted
      <4>1. CASE ses[r].role \in SystemRoles
        BY <4>1, <3>2 DEF RolePerms, OperatorPerms
      <4>2. CASE ses[r].role \in CustomRoles
        BY <4>2, <1>0, RoleIdsAssumption DEF RolePerms, NoEscalation
      <4> QED
        BY <2>1, <4>1, <4>2 DEF Alive
    <3>3. RequestOK(r)'
      BY <1>0, <1>9, <3>1, <3>2 DEF LoadRolePermissions, RequestOK, ContextOK, LocalsOK,
                                    WriterOK, AnswerOK, Fit, Early
    <3> QED
      BY <1>1, <1>3, <3>1, <3>3, Preserved
  <2>2. CASE ~Alive(ses[r].role)
    BY <1>2, <1>9, <2>2 DEF LoadRolePermissions
  <2> QED
    BY <2>1, <2>2
<1>10. CASE Forbidden(r) \/ Fails(r) \/ Delivered(r)
  BY <1>2, <1>10 DEF Forbidden, Fails, Delivered
<1> QED
  BY <1>1, <1>5, <1>6, <1>7, <1>8, <1>9, <1>10 DEF AccessStep


----------------------------------------------------------------------------
(* Roles and permissions.                                                  *)

\* Steps that only look, or that write nothing the invariant is about.
LEMMA CatalogQuiet ==
    ASSUME PrivilegeInv, NEW r \in Requests,
           \/ CreateRole(r) \/ DeleteRole(r) \/ DeleteRoleCount(r)
           \/ CreatePermission(r) \/ UpdatePermission(r) \/ DeletePermission(r)
           \/ DeletePermissionRow(r) \/ FindRoles(r) \/ LockRoles(r)
    PROVE  Quiet(r)
<1> USE DEF tables, catalogVars, NoArg, Quiet, Watched, Early
<1>0. Shape /\ RequestOK(r)
  BY DEF PrivilegeInv
<1>1. CASE CreateRole(r)
  BY <1>0, <1>1, AnswerEnds, GotoMoves DEF CreateRole, SvcCreateRole
<1>2. CASE DeleteRole(r)
  BY <1>0, <1>2, AnswerEnds, GotoMoves DEF DeleteRole, SvcDeleteRole
<1>3. CASE DeleteRoleCount(r)
  BY <1>0, <1>3, AnswerEnds, GotoMoves DEF DeleteRoleCount, RequestOK, AnswerOK
<1>4. CASE CreatePermission(r)
  BY <1>0, <1>4, AnswerEnds, GotoMoves DEF CreatePermission
<1>5. CASE UpdatePermission(r)
  BY <1>0, <1>5, AnswerEnds, GotoMoves DEF UpdatePermission
<1>6. CASE DeletePermission(r)
  BY <1>0, <1>6, AnswerEnds, GotoMoves DEF DeletePermission, DeleteLookup
<1>7. CASE DeletePermissionRow(r)
  BY <1>0, <1>7, AnswerEnds, GotoMoves DEF DeletePermissionRow
<1>8. CASE FindRoles(r) \/ LockRoles(r)
  <2>1. PICK C, l :
          /\ l \in {"perm_lock", "perm_commit"}
          /\ Goto(r, l, [NoArg EXCEPT !.perms = arg[r].perms, !.roles = C])
    BY <1>8 DEF FindRoles, LockRoles
  <2> DEFINE a == [NoArg EXCEPT !.perms = arg[r].perms, !.roles = C]
  <2>2. a.shown = {}
    OBVIOUS
  <2> HIDE DEF a
  <2>3. Moved(r)
    BY <1>0, <2>1, <2>2, GotoMoves DEF a
  <2> QED
    BY <1>8, <2>3 DEF FindRoles, LockRoles
<1> QED
  BY <1>1, <1>2, <1>3, <1>4, <1>5, <1>6, <1>7, <1>8

\* What ensureGrantable lets through was granted, unless the caller is global.
LEMMA GrantableIsGranted ==
    ASSUME PrivilegeInv, NEW r \in Requests, NEW P, EnsureGrantable(r, P),
           ses[r].role \notin GlobalRoles
    PROVE  P \cap OperatorPerms \subseteq granted
BY DEF PrivilegeInv, RequestOK, ContextOK, EnsureGrantable, CanSeePlatformInternals, Can,
       SystemPermissionIDs, OperatorPerms, GlobalRoles

\* What the catalogue shows.
LEMMA CatalogFits ==
    ASSUME NEW r \in Requests
    PROVE  /\ Fit(r, ListForTenant(ses[r].tenant, CanSeePlatformInternals(r)))
           /\ \A x \in RoleIds :
                 GetByIDForTenant(x, ses[r].tenant, CanSeePlatformInternals(r)) =>
                    Fit(r, {Shown(x, "roles", Owner(x))})
           /\ Fit(r, {Record(PermissionOwner(p)) : p \in VisiblePermissions(ses[r].tenant)})
           /\ \A p \in Perms : PermissionVisible(p, ses[r].tenant) =>
                 Fit(r, {Record(PermissionOwner(p))})
<1>1. ASSUME NEW x, GetByIDForTenant(x, ses[r].tenant, CanSeePlatformInternals(r))
      PROVE  /\ x \in GlobalRoles => CanSeePlatformInternals(r)
             /\ Owner(x) \in {NoTenant, ses[r].tenant}
  BY <1>1 DEF GetByIDForTenant, OwnOrSystem, Owner
<1>2. ASSUME NEW p \in Perms, PermissionVisible(p, ses[r].tenant)
      PROVE  PermissionOwner(p) \in {NoTenant, ses[r].tenant}
  BY <1>2 DEF PermissionVisible, PermissionOwner
<1>3. NoRole \notin GlobalRoles
  BY RoleIdsAssumption DEF SystemRoles
<1>4. Fit(r, ListForTenant(ses[r].tenant, CanSeePlatformInternals(r)))
  BY <1>1 DEF Fit, ListForTenant, Shown
<1>5. \A x \in RoleIds :
         GetByIDForTenant(x, ses[r].tenant, CanSeePlatformInternals(r)) =>
            Fit(r, {Shown(x, "roles", Owner(x))})
  BY <1>1 DEF Fit, Shown
<1>6. Fit(r, {Record(PermissionOwner(p)) : p \in VisiblePermissions(ses[r].tenant)})
  BY <1>2, <1>3 DEF Fit, Record, Shown, VisiblePermissions
<1>7. \A p \in Perms : PermissionVisible(p, ses[r].tenant) =>
         Fit(r, {Record(PermissionOwner(p))})
  BY <1>2, <1>3 DEF Fit, Record, Shown
<1> QED
  BY <1>4, <1>5, <1>6, <1>7

LEMMA CatalogPreserves ==
    ASSUME PrivilegeInv, NEW r \in Requests, CatalogStep(r)
    PROVE  PrivilegeInv' /\ utr' = utr
<1> USE DEF tables, catalogVars
<1>0. Shape /\ RequestOK(r) /\ NoEscalation
  BY DEF PrivilegeInv
<1>1. utr' = utr
  BY DEF CatalogStep, CreateRole, CreateRoleValidate, InsertRole, UpdateRole, UpdateRoleValidate,
         WriteRole, DeleteRole, DeleteRoleCount, SoftDelete, CreatePermission, UpdatePermission,
         DeletePermission, DeletePermissionRow, FindRoles, LockRoles, CommitDeletion, ListRoles,
         GetRole, ListPermissions, GetPermission
\* A step that leaves roles and grants alone.
<1>2. ASSUME role' = role, granted' = granted, Frame(r), RequestOK(r)' PROVE PrivilegeInv'
  <2>1. NoEscalation' /\ DOMAIN role' = CustomRoles
          /\ \A c \in CustomRoles : DOMAIN role'[c] = {"tenant", "perms", "alive"}
    BY <1>0, <1>2 DEF NoEscalation, Shape
  <2> QED
    BY <1>2, <2>1, Preserved
<1>3. ASSUME Quiet(r) PROVE PrivilegeInv'
  BY <1>3, QuietPreserves
\* A step that ends having written a role.
<1>4. ASSUME Answer(r), granted \subseteq granted', NoEscalation', DOMAIN role' = CustomRoles,
             \A c \in CustomRoles : DOMAIN role'[c] = {"tenant", "perms", "alive"}
      PROVE  PrivilegeInv'
  <2>1. Ended(r)
    BY <1>0, <1>4, AnswerEnds
  <2>2. RequestOK(r)'
    BY <2>1, IdleOK
  <2> QED
    BY <1>4, <2>1, <2>2, Preserved DEF Ended
<1>5. CASE CreateRoleValidate(r)
  <2>1. CASE Answer(r)
    BY <1>0, <1>3, <1>5, <2>1, AnswerEnds DEF Quiet, CreateRoleValidate
  <2>2. CASE Goto(r, "create_insert", arg[r]) /\ EnsureGrantable(r, arg[r].perms)
    <3>1. Frame(r) /\ pc'[r] = "create_insert" /\ arg'[r] = arg[r] /\ ses'[r] = ses[r]
      BY <1>0, <2>2, GotoFrame
    <3>2. RequestOK(r)'
      BY <1>0, <1>5, <2>2, <3>1, GrantableIsGranted
      DEF CreateRoleValidate, RequestOK, ContextOK, LocalsOK, WriterOK, AnswerOK, Fit, Early
    <3> QED
      BY <1>2, <1>5, <3>1, <3>2 DEF CreateRoleValidate
  <2> QED
    BY <1>5, <2>1, <2>2 DEF CreateRoleValidate
<1>6. CASE InsertRole(r)
  <2>1. PICK c \in CustomRoles :
          /\ role' = [role EXCEPT ![c] = [tenant |-> ses[r].tenant, perms |-> arg[r].perms,
                                          alive |-> TRUE]]
          /\ RecordWrite(r, c, arg[r].perms)
    BY <1>6 DEF InsertRole
  <2>2. granted \subseteq granted' /\ arg[r].perms \cap OperatorPerms \subseteq granted'
    BY <1>0, <1>6, <2>1 DEF RecordWrite, InsertRole, RequestOK, LocalsOK, IsCrossTenantRole,
                            SystemPermissionIDs, OperatorPerms
  <2>3. /\ DOMAIN role' = CustomRoles
        /\ \A d \in CustomRoles : DOMAIN role'[d] = {"tenant", "perms", "alive"}
        /\ \A d \in CustomRoles : role'[d].perms \in {role[d].perms, arg[r].perms}
    BY <1>0, <2>1 DEF Shape
  <2>4. NoEscalation'
    BY <1>0, <2>2, <2>3 DEF NoEscalation
  <2> QED
    BY <1>4, <1>6, <2>2, <2>3, <2>4 DEF InsertRole
<1>7. CASE UpdateRole(r)
  <2>1. CASE Answer(r)
    BY <1>0, <1>3, <1>7, <2>1, AnswerEnds DEF Quiet, UpdateRole
  <2>2. CASE ~Answer(r)
    <3>1. PICK c \in RoleIds \ SystemRoles, P \in PermInputs :
            Goto(r, "update_validate", [NoArg EXCEPT !.role = c, !.perms = P, !.had = role[c].perms])
      BY <1>7, <2>2 DEF UpdateRole, SvcUpdateRole
    <3> DEFINE a == [NoArg EXCEPT !.role = c, !.perms = P, !.had = role[c].perms]
    <3>a. a.had = role[c].perms /\ a.shown = {}
      BY DEF NoArg
    <3>2. /\ Frame(r) /\ pc'[r] = "update_validate" /\ ses'[r] = ses[r]
          /\ arg'[r].had = role[c].perms /\ arg'[r].shown = {}
      <4> HIDE DEF a
      <4>1. Frame(r) /\ pc'[r] = "update_validate" /\ ses'[r] = ses[r] /\ arg'[r] = a
        BY <1>0, <3>1, GotoFrame DEF a
      <4> QED
        BY <3>a, <4>1
    <3>3. role[c].perms \cap OperatorPerms \subseteq granted
      BY <1>0 DEF NoEscalation, RoleIds
    <3>4. granted' = granted
      BY <1>7 DEF UpdateRole
    <3>5. RequestOK(r)'
      BY <1>0, <3>2, <3>3, <3>4 DEF RequestOK, ContextOK, LocalsOK, WriterOK, AnswerOK, Fit, Early
    <3> QED
      BY <1>2, <1>7, <3>2, <3>5 DEF UpdateRole
  <2> QED
    BY <2>1, <2>2
<1>8. CASE UpdateRoleValidate(r)
  <2>1. CASE Answer(r)
    BY <1>0, <1>3, <1>8, <2>1, AnswerEnds DEF Quiet, UpdateRoleValidate
  <2>2. CASE Goto(r, "update_write", arg[r]) /\ EnsureGrantable(r, arg[r].perms \ arg[r].had)
    <3>1. Frame(r) /\ pc'[r] = "update_write" /\ arg'[r] = arg[r] /\ ses'[r] = ses[r]
      BY <1>0, <2>2, GotoFrame
    <3>2. ses[r].role \notin GlobalRoles => (arg[r].perms \ arg[r].had) \cap OperatorPerms \subseteq granted
      BY <2>2, GrantableIsGranted
    <3>3. arg[r].had \cap OperatorPerms \subseteq granted /\ granted' = granted
      BY <1>0, <1>8 DEF UpdateRoleValidate, RequestOK, LocalsOK
    <3>4. RequestOK(r)'
      BY <1>0, <1>8, <3>1, <3>2, <3>3
      DEF UpdateRoleValidate, RequestOK, ContextOK, LocalsOK, WriterOK, AnswerOK, Fit, Early
    <3> QED
      BY <1>2, <1>8, <3>1, <3>4 DEF UpdateRoleValidate
  <2> QED
    BY <1>8, <2>1, <2>2 DEF UpdateRoleValidate
<1>9. CASE WriteRole(r)
  <2>1. /\ granted \subseteq granted'
        /\ role' # role => arg[r].perms \cap OperatorPerms \subseteq granted'
    BY <1>0, <1>9 DEF RecordWrite, WriteRole, RequestOK, LocalsOK, IsCrossTenantRole,
                      SystemPermissionIDs, OperatorPerms
  <2>2. \/ role' = role
        \/ role' = [role EXCEPT ![arg[r].role].perms = arg[r].perms]
    BY <1>9 DEF WriteRole
  <2>3. /\ DOMAIN role' = CustomRoles
        /\ \A d \in CustomRoles : DOMAIN role'[d] = {"tenant", "perms", "alive"}
        /\ \A d \in CustomRoles : role'[d].perms \in {role[d].perms, arg[r].perms}
    BY <1>0, <2>2 DEF Shape
  <2>4. NoEscalation'
    BY <1>0, <2>1, <2>3 DEF NoEscalation
  <2> QED
    BY <1>4, <1>9, <2>1, <2>3, <2>4 DEF WriteRole
<1>10. CASE SoftDelete(r)
  <2>1. /\ DOMAIN role' = CustomRoles
        /\ \A d \in CustomRoles : DOMAIN role'[d] = {"tenant", "perms", "alive"}
        /\ \A d \in CustomRoles : role'[d].perms = role[d].perms
    BY <1>0, <1>10 DEF SoftDelete, Shape
  <2>2. NoEscalation' /\ granted \subseteq granted'
    BY <1>0, <1>10, <2>1 DEF NoEscalation, SoftDelete
  <2> QED
    BY <1>4, <1>10, <2>1, <2>2 DEF SoftDelete
<1>11. CASE CommitDeletion(r)
  <2>1. PICK C, D : role' = CleanRoles(C, D)
    BY <1>11 DEF CommitDeletion
  <2>2. /\ DOMAIN role' = CustomRoles
        /\ \A d \in CustomRoles : DOMAIN role'[d] = {"tenant", "perms", "alive"}
        /\ \A d \in CustomRoles : role'[d].perms \subseteq role[d].perms
    BY <1>0, <2>1 DEF CleanRoles, Shape
  <2>3. NoEscalation' /\ granted \subseteq granted'
    BY <1>0, <1>11, <2>2 DEF NoEscalation, CommitDeletion
  <2> QED
    BY <1>4, <1>11, <2>2, <2>3 DEF CommitDeletion
\* The reads.
<1>12. CASE ListRoles(r) \/ GetRole(r) \/ ListPermissions(r) \/ GetPermission(r)
  <2>1. \/ Answer(r)
        \/ \E S : Fit(r, S) /\ Show(r, S)
    <3>1. CASE ListRoles(r)
      BY <3>1, CatalogFits DEF ListRoles
    <3>2. CASE GetRole(r)
      BY <3>2, CatalogFits DEF GetRole
    <3>3. CASE ListPermissions(r)
      BY <3>3, CatalogFits DEF ListPermissions
    <3>4. CASE GetPermission(r)
      BY <3>4, CatalogFits DEF GetPermission
    <3> QED
      BY <1>12, <3>1, <3>2, <3>3, <3>4
  <2>2. granted' = granted /\ role' = role
    BY <1>12 DEF ListRoles, GetRole, ListPermissions, GetPermission
  <2>3. CASE Answer(r)
    BY <1>0, <1>1, <1>3, <2>2, <2>3, AnswerEnds DEF Quiet
  <2>4. CASE \E S : Fit(r, S) /\ Show(r, S)
    BY <1>1, <1>2, <2>2, <2>4, ShowFits
  <2> QED
    BY <2>1, <2>3, <2>4
<1>13. CASE \/ CreateRole(r) \/ DeleteRole(r) \/ DeleteRoleCount(r)
           \/ CreatePermission(r) \/ UpdatePermission(r) \/ DeletePermission(r)
           \/ DeletePermissionRow(r) \/ FindRoles(r) \/ LockRoles(r)
  BY <1>1, <1>3, <1>13, CatalogQuiet
<1> QED
  BY <1>1, <1>5, <1>6, <1>7, <1>8, <1>9, <1>10, <1>11, <1>12, <1>13 DEF CatalogStep


----------------------------------------------------------------------------
(* Users and memberships.                                                  *)

RowShape ==
    /\ DOMAIN utr = Rows
    /\ \A m \in Rows : DOMAIN utr[m] = {"user", "tenant", "role", "status"}

\* The platform's rows change only by a super_admin, or with their tenant.
Guarded(r) ==
    \A m \in Rows :
       utr'[m] # utr[m] /\ {utr[m].role, utr'[m].role} \cap GlobalRoles # {} =>
          \/ utr[m].tenant \in tenants \ tenants'
          \/ pc'[r] # pc[r] /\ CanSeePlatformInternals(r)

LEMMA MembershipQuiet ==
    ASSUME PrivilegeInv, NEW r \in Requests, granted' = granted,
           \/ AssignUserRole(r) \/ BulkAssignUserRoles(r) \/ UpdateUserRole(r)
           \/ UpdateUserRoleAssignable(r) \/ RevokeUserRole(r) \/ UpdateUserStatus(r)
           \/ UpdateUser(r) \/ UpdateMe(r) \/ UpdateUserAssignable(r) \/ UpdateUserWrite(r)
           \/ DeleteUser(r) \/ DeleteUserWrite(r)
    PROVE  Quiet(r)
<1> USE DEF tables
<1>0. Shape /\ RequestOK(r)
  BY DEF PrivilegeInv
<1>a. ASSUME Answer(r), role' = role, utr' = utr PROVE Quiet(r)
  BY <1>0, <1>a, AnswerEnds DEF Quiet
<1>b. ASSUME NEW l, NEW a, Goto(r, l, a), l \notin Watched, a.shown = {}, role' = role, utr' = utr
      PROVE  Quiet(r)
  BY <1>0, <1>b, GotoMoves DEF Quiet
<1>c. pc[r] # "answered" => arg[r].shown = {}
  BY <1>0 DEF RequestOK, AnswerOK
<1> USE DEF Watched, Early
<1>1. CASE AssignUserRole(r)
  <2>1. PICK u \in Users, x \in RoleInputs :
          \/ Answer(r)
          \/ Goto(r, "assign_check", [NoArg EXCEPT !.users = {u}, !.role = x])
    BY <1>1 DEF AssignUserRole, Assign
  <2>2. [NoArg EXCEPT !.users = {u}, !.role = x].shown = {}
    BY DEF NoArg
  <2> QED
    BY <1>a, <1>b, <1>1, <2>1, <2>2 DEF AssignUserRole
<1>2. CASE BulkAssignUserRoles(r)
  <2>1. PICK U \in Batches, x \in RoleInputs :
          \/ Answer(r)
          \/ Goto(r, "assign_check", [NoArg EXCEPT !.users = U, !.role = x])
    BY <1>2 DEF BulkAssignUserRoles, Assign
  <2>2. [NoArg EXCEPT !.users = U, !.role = x].shown = {}
    BY DEF NoArg
  <2> QED
    BY <1>a, <1>b, <1>2, <2>1, <2>2 DEF BulkAssignUserRoles
<1>3. CASE UpdateUserRole(r)
  <2>1. PICK m \in Rows, x \in RoleInputs :
          \/ Answer(r)
          \/ Goto(r, "role_assignable", [NoArg EXCEPT !.id = m, !.role = x])
    BY <1>3 DEF UpdateUserRole, RoleChange
  <2>2. [NoArg EXCEPT !.id = m, !.role = x].shown = {}
    BY DEF NoArg
  <2> QED
    BY <1>a, <1>b, <1>3, <2>1, <2>2 DEF UpdateUserRole
<1>4. CASE UpdateUserRoleAssignable(r)
  BY <1>a, <1>b, <1>c, <1>4 DEF UpdateUserRoleAssignable
<1>5. CASE RevokeUserRole(r)
  BY <1>a, <1>b, <1>5 DEF RevokeUserRole, Revocation, NoArg
<1>6. CASE UpdateUserStatus(r)
  <2>1. PICK u, s, t :
          \/ Answer(r)
          \/ Goto(r, "status_write", [NoArg EXCEPT !.users = {u}, !.status = UtrStatus[s], !.tenant = t])
    BY <1>6 DEF UpdateUserStatus, SvcUpdateUserStatus
  <2>2. [NoArg EXCEPT !.users = {u}, !.status = UtrStatus[s], !.tenant = t].shown = {}
    BY DEF NoArg
  <2> QED
    BY <1>a, <1>b, <1>6, <2>1, <2>2 DEF UpdateUserStatus
<1>7. CASE UpdateUser(r)
  <2>1. PICK u, t, x :
          \/ Answer(r)
          \/ Goto(r, "user_write", [[NoArg EXCEPT !.users = {u}, !.tenant = t] EXCEPT !.role = x])
          \/ Goto(r, "user_assignable", [[NoArg EXCEPT !.users = {u}, !.tenant = t] EXCEPT !.role = x])
    BY <1>7 DEF UpdateUser, LookupForUpdate
  <2>2. [[NoArg EXCEPT !.users = {u}, !.tenant = t] EXCEPT !.role = x].shown = {}
    BY DEF NoArg
  <2> QED
    BY <1>a, <1>b, <1>7, <2>1, <2>2 DEF UpdateUser
<1>8. CASE UpdateMe(r)
  <2>1. PICK u, t, x :
          \/ Answer(r)
          \/ Goto(r, "user_write", [[NoArg EXCEPT !.users = {u}, !.tenant = t] EXCEPT !.role = x])
          \/ Goto(r, "user_assignable", [[NoArg EXCEPT !.users = {u}, !.tenant = t] EXCEPT !.role = x])
    BY <1>8 DEF UpdateMe, LookupForUpdate
  <2>2. [[NoArg EXCEPT !.users = {u}, !.tenant = t] EXCEPT !.role = x].shown = {}
    BY DEF NoArg
  <2> QED
    BY <1>a, <1>b, <1>8, <2>1, <2>2 DEF UpdateMe
<1>9. CASE UpdateUserAssignable(r)
  BY <1>a, <1>b, <1>c, <1>9 DEF UpdateUserAssignable
<1>10. CASE UpdateUserWrite(r)
  BY <1>a, <1>b, <1>c, <1>10 DEF UpdateUserWrite
<1>11. CASE DeleteUser(r)
  <2>1. PICK u, t :
          \/ Answer(r)
          \/ Goto(r, "user_delete", [NoArg EXCEPT !.users = {u}, !.tenant = t])
    BY <1>11 DEF DeleteUser, SvcDeleteUser
  <2>2. [NoArg EXCEPT !.users = {u}, !.tenant = t].shown = {}
    BY DEF NoArg
  <2> QED
    BY <1>a, <1>b, <1>11, <2>1, <2>2 DEF DeleteUser
<1>12. CASE DeleteUserWrite(r)
  BY <1>a, <1>b, <1>c, <1>12 DEF DeleteUserWrite
<1> QED
  BY <1>1, <1>2, <1>3, <1>4, <1>5, <1>6, <1>7, <1>8, <1>9, <1>10, <1>11, <1>12

\* What the queries on users and memberships show: the row a user was found
\* by is of the tenant, unless the caller crosses tenants.
LEMMA MembersFit ==
    ASSUME NEW r \in Requests
    PROVE  /\ Fit(r, ListByTenant(ses[r].tenant, CanSeePlatformInternals(r)))
           /\ Fit(r, ListPendingByTenant(ses[r].tenant, CanSeePlatformInternals(r)))
           /\ Fit(r, FindByTenant(ses[r].tenant, CanSeePlatformInternals(r)))
           /\ \A u : Fit(r, FindByUser(u, ses[r].tenant, IsCrossTenantRole(r),
                                       CanSeePlatformInternals(r)))
           /\ \A u : \A row \in Lateral(u, ses[r].tenant, IsCrossTenantRole(r)) :
                 GetByID(u, row, ses[r].tenant, IsCrossTenantRole(r), CanSeePlatformInternals(r)) =>
                    Fit(r, {ShownRole(u, row)}) /\ Fit(r, GetByIDWithRoles(u, row))
<1> DEFINE t == ses[r].tenant
           Found(u, row, cross) ==
              /\ row \in Lateral(u, t, cross)
              /\ GetByID(u, row, t, cross, CanSeePlatformInternals(r))
<1>1. ASSUME NEW u, NEW row, NEW cross, Found(u, row, cross), cross => IsCrossTenantRole(r)
      PROVE  /\ Visible(row, CanSeePlatformInternals(r))
             /\ row # NoRow => row.tenant = t \/ IsCrossTenantRole(r)
             /\ row = NoRow => users[u].tenant = t \/ IsCrossTenantRole(r)
  BY <1>1 DEF Lateral, GetByID
<1>2. ASSUME NEW u, NEW row, NEW cross, Found(u, row, cross), cross => IsCrossTenantRole(r)
      PROVE  Fit(r, {ShownRole(u, row)})
  BY <1>1, <1>2 DEF Fit, ShownRole, Shown, Visible
<1>3. ASSUME NEW u, NEW row, NEW cross, Found(u, row, cross), cross => IsCrossTenantRole(r)
      PROVE  Fit(r, GetByIDWithRoles(u, row))
  <2>1. \A v \in GetByIDWithRoles(u, row) :
           \/ v = ShownRole(u, row)
           \/ row.role # NoRole /\ v = Shown(row.role, "roles", row.tenant)
    BY DEF GetByIDWithRoles
  <2>2. row.role # NoRole => row # NoRow
    BY DEF NoRow
  <2>3. row.role # NoRole => Fit(r, {Shown(row.role, "roles", row.tenant)})
    BY <1>1, <1>3, <2>2 DEF Fit, Shown, Visible
  <2> QED
    BY <1>2, <1>3, <2>1, <2>3 DEF Fit
<1>4. Fit(r, ListByTenant(t, CanSeePlatformInternals(r)))
  <2>1. ASSUME NEW v \in ListByTenant(t, CanSeePlatformInternals(r))
        PROVE  \E u, row : Found(u, row, FALSE) /\ v = ShownRole(u, row)
    BY <2>1 DEF ListByTenant
  <2>2. ASSUME NEW v \in ListByTenant(t, CanSeePlatformInternals(r)) PROVE Fit(r, {v})
    <3> HIDE DEF Found
    <3>1. PICK u, row : Found(u, row, FALSE) /\ v = ShownRole(u, row)
      BY <2>1, <2>2
    <3> QED
      BY <3>1, <1>2
  <2> QED
    BY <2>2 DEF Fit
<1>5. Fit(r, ListPendingByTenant(t, CanSeePlatformInternals(r)))
  <2>1. ASSUME NEW m \in Rows, utr[m].tenant = t, utr[m].status = "pending",
               Visible(utr[m], CanSeePlatformInternals(r))
        PROVE  Fit(r, {ShownRole(utr[m].user, utr[m])})
    <3>1. utr[m] # NoRow
      BY <2>1 DEF NoRow
    <3> QED
      BY <2>1, <3>1 DEF Fit, ShownRole, Shown, Visible
  <2>2. ASSUME NEW v \in ListPendingByTenant(t, CanSeePlatformInternals(r)) PROVE Fit(r, {v})
    BY <2>1, <2>2 DEF ListPendingByTenant
  <2> QED
    BY <2>2 DEF Fit
<1>6. Fit(r, FindByTenant(t, CanSeePlatformInternals(r)))
  BY DEF Fit, FindByTenant, Visible, Shown
<1>7. ASSUME NEW u
      PROVE  Fit(r, FindByUser(u, t, IsCrossTenantRole(r), CanSeePlatformInternals(r)))
  BY DEF Fit, FindByUser, Visible, Shown
<1> QED
  BY <1>2, <1>3, <1>4, <1>5, <1>6, <1>7

LEMMA MembershipPreserves ==
    ASSUME PrivilegeInv, NEW r \in Requests, MembershipStep(r), UNCHANGED catalogVars
    PROVE  PrivilegeInv'
<1> USE DEF tables
<1>0. Shape /\ RequestOK(r) /\ NoEscalation /\ granted' = granted
  BY DEF PrivilegeInv, catalogVars
<1>1. role' = role
  BY DEF MembershipStep, AssignUserRole, BulkAssignUserRoles, AssignCheck, AssignInsert,
         UpdateUserRole, UpdateUserRoleAssignable, UpdateUserRoleCheck, UpdateUserRoleWrite,
         RevokeUserRole, RevokeWrite, UpdateUserStatus, UpdateUserStatusWrite, CreateUser,
         CreateWithRole, UpdateUser, UpdateMe, UpdateUserAssignable, UpdateUserWrite, DeleteUser,
         DeleteUserWrite, ListUsers, GetUser, ListPendingUsers, ListUserRoles, GetUserRoles
<1>2. ASSUME Frame(r), RequestOK(r)' PROVE PrivilegeInv'
  <2>1. NoEscalation' /\ DOMAIN role' = CustomRoles
          /\ \A c \in CustomRoles : DOMAIN role'[c] = {"tenant", "perms", "alive"}
    BY <1>0, <1>1 DEF NoEscalation, Shape
  <2> QED
    BY <1>0, <1>2, <2>1, Preserved
<1>3. ASSUME Answer(r) PROVE PrivilegeInv'
  BY <1>0, <1>2, <1>3, AnswerEnds, IdleOK DEF Ended
\* Towards a write: a global role only for super_admin.
<1>4. ASSUME NEW l \in {"assign_insert", "role_write", "user_create"}, NEW a, Goto(r, l, a),
             a.role \in GlobalRoles => CanSeePlatformInternals(r), a.shown = {}
      PROVE  PrivilegeInv'
  <2>1. Frame(r) /\ pc'[r] = l /\ arg'[r] = a /\ ses'[r] = ses[r]
    BY <1>0, <1>4, GotoFrame
  <2>2. RequestOK(r)'
    BY <1>0, <1>4, <2>1 DEF RequestOK, ContextOK, LocalsOK, WriterOK, AnswerOK, Fit,
                            IsCrossTenantRole, CanSeePlatformInternals, Early
  <2> QED
    BY <1>2, <2>1, <2>2
<1>5. ASSUME NEW S, Show(r, S), Fit(r, S) PROVE PrivilegeInv'
  BY <1>0, <1>2, <1>5, ShowFits
<1>6. pc[r] # "answered" => arg[r].shown = {}
  BY <1>0 DEF RequestOK, AnswerOK
<1>7. CASE AssignCheck(r)
  BY <1>3, <1>4, <1>6, <1>7 DEF AssignCheck, CheckRoleAllowedForTenant
<1>8. CASE UpdateUserRoleCheck(r)
  BY <1>3, <1>4, <1>6, <1>8 DEF UpdateUserRoleCheck, CheckRoleAllowedForTenant
<1>9. CASE CreateUser(r)
  <2>1. PICK x \in RoleInputs :
          \/ Answer(r)
          \/ Goto(r, "user_create", [NoArg EXCEPT !.role = x]) /\ (x \in GlobalRoles => CanSeePlatformInternals(r))
    BY <1>9 DEF CreateUser, SvcCreateUser, EnsureAssignable, GetByIDForTenant
  <2>2. [NoArg EXCEPT !.role = x].shown = {} /\ [NoArg EXCEPT !.role = x].role = x
    BY DEF NoArg
  <2> QED
    BY <1>3, <1>4, <2>1, <2>2
<1>10. CASE \/ AssignInsert(r) \/ UpdateUserRoleWrite(r) \/ RevokeWrite(r)
            \/ UpdateUserStatusWrite(r) \/ CreateWithRole(r)
  BY <1>3, <1>10 DEF AssignInsert, UpdateUserRoleWrite, RevokeWrite, UpdateUserStatusWrite,
                     CreateWithRole
<1>11. CASE ListUsers(r) \/ ListPendingUsers(r) \/ ListUserRoles(r) \/ GetUserRoles(r)
  BY <1>5, <1>11, MembersFit DEF ListUsers, ListPendingUsers, ListUserRoles, GetUserRoles
<1>12. CASE GetUser(r)
  <2>1. PICK u \in Users : SvcGetUser(r, u)
    BY <1>12 DEF GetUser
  <2>2. PICK row \in Lateral(u, ses[r].tenant, IsCrossTenantRole(r)) :
          \/ Answer(r)
          \/ /\ Show(r, {ShownRole(u, row)}) \/ Show(r, GetByIDWithRoles(u, row))
             /\ GetByID(u, row, ses[r].tenant, IsCrossTenantRole(r), CanSeePlatformInternals(r))
    BY <2>1 DEF SvcGetUser
  <2>3. CASE Answer(r)
    BY <1>3, <2>3
  <2>4. CASE ~Answer(r)
    BY <1>5, <2>2, <2>4, MembersFit
  <2> QED
    BY <2>3, <2>4
<1>13. CASE \/ AssignUserRole(r) \/ BulkAssignUserRoles(r) \/ UpdateUserRole(r)
            \/ UpdateUserRoleAssignable(r) \/ RevokeUserRole(r) \/ UpdateUserStatus(r)
            \/ UpdateUser(r) \/ UpdateMe(r) \/ UpdateUserAssignable(r) \/ UpdateUserWrite(r)
            \/ DeleteUser(r) \/ DeleteUserWrite(r)
  BY <1>0, <1>13, MembershipQuiet, QuietPreserves
<1> QED
  BY <1>7, <1>8, <1>9, <1>10, <1>11, <1>12, <1>13 DEF MembershipStep

\* The rows: every write carries the predicate on global roles itself.
LEMMA MembershipRows ==
    ASSUME PrivilegeInv, RowShape, NEW r \in Requests, MembershipStep(r)
    PROVE  RowShape' /\ Guarded(r)
<1> USE DEF tables
<1>0. Shape /\ RequestOK(r)
  BY DEF PrivilegeInv
<1>1. ASSUME utr' = utr PROVE RowShape' /\ Guarded(r)
  BY <1>1 DEF RowShape, Guarded
<1>2. Answer(r) => pc'[r] = "idle"
  BY <1>0, AnswerEnds DEF Ended
<1>3. CASE AssignInsert(r)
  <2>1. CASE utr' = utr
    BY <1>1, <2>1
  <2>2. CASE utr' # utr
    <3> DEFINE U == arg[r].users
    <3>1. PICK f \in [U -> {m \in Rows : utr[m] = NoRow}] :
            utr' = [m \in Rows |->
                      IF \E u \in U : f[u] = m
                      THEN [user |-> CHOOSE u \in U : f[u] = m, tenant |-> ses[r].tenant,
                            role |-> arg[r].role, status |-> "active"]
                      ELSE utr[m]]
      BY <1>3, <2>2 DEF AssignInsert
    <3>2. RowShape'
      BY <3>1 DEF RowShape
    <3>3. \A m \in Rows : utr'[m] # utr[m] => utr[m] = NoRow /\ utr'[m].role = arg[r].role
      BY <3>1
    <3>4. arg[r].role \in GlobalRoles => CanSeePlatformInternals(r)
      BY <1>0, <1>3 DEF AssignInsert, RequestOK, WriterOK
    <3>5. NoRow.role \notin GlobalRoles
      BY RoleIdsAssumption DEF NoRow, SystemRoles
    <3>6. pc'[r] # pc[r]
      BY <1>2, <1>3 DEF AssignInsert
    <3> QED
      BY <3>2, <3>3, <3>4, <3>5, <3>6 DEF Guarded
  <2> QED
    BY <2>1, <2>2
<1>4. CASE UpdateUserRoleWrite(r)
  <2>1. CASE utr' = utr
    BY <1>1, <2>1
  <2>2. CASE utr' # utr
    <3>1. /\ utr' = [utr EXCEPT ![arg[r].id].role = arg[r].role]
          /\ Visible(utr[arg[r].id], CanSeePlatformInternals(r))
      BY <1>4, <2>2 DEF UpdateUserRoleWrite, UpdateQuery
    <3>2. RowShape'
      BY <3>1 DEF RowShape
    <3>3. \A m \in Rows : utr'[m] # utr[m] => m = arg[r].id /\ utr'[m].role = arg[r].role
      BY <3>1 DEF RowShape
    <3>4. arg[r].role \in GlobalRoles => CanSeePlatformInternals(r)
      BY <1>0, <1>4 DEF UpdateUserRoleWrite, RequestOK, WriterOK
    <3>5. pc'[r] # pc[r]
      BY <1>2, <1>4 DEF UpdateUserRoleWrite
    <3> QED
      BY <3>1, <3>2, <3>3, <3>4, <3>5 DEF Guarded, Visible
  <2> QED
    BY <2>1, <2>2
<1>5. CASE RevokeWrite(r)
  <2>1. CASE utr' = utr
    BY <1>1, <2>1
  <2>2. CASE utr' # utr
    <3>1. /\ utr' = [utr EXCEPT ![arg[r].id].status = "revoked"]
          /\ Visible(utr[arg[r].id], CanSeePlatformInternals(r))
      BY <1>5, <2>2 DEF RevokeWrite, RevokeQuery
    <3>2. RowShape'
      BY <3>1 DEF RowShape
    <3>3. \A m \in Rows : utr'[m] # utr[m] => m = arg[r].id /\ utr'[m].role = utr[m].role
      BY <3>1 DEF RowShape
    <3>4. pc'[r] # pc[r]
      BY <1>2, <1>5 DEF RevokeWrite
    <3> QED
      BY <3>1, <3>2, <3>3, <3>4 DEF Guarded, Visible
  <2> QED
    BY <2>1, <2>2
<1>6. CASE UpdateUserStatusWrite(r)
  <2>1. CASE utr' = utr
    BY <1>1, <2>1
  <2>2. CASE utr' # utr
    <3>1. PICK u \in arg[r].users :
            UpdateStatusQuery(u, arg[r].tenant, arg[r].status, CanSeePlatformInternals(r))
      BY <1>6 DEF UpdateUserStatusWrite
    <3>2. PICK hit \in SUBSET Rows :
            /\ \A m \in hit : Visible(utr[m], CanSeePlatformInternals(r))
            /\ utr' = [m \in Rows |-> IF m \in hit THEN [utr[m] EXCEPT !.status = arg[r].status]
                                                     ELSE utr[m]]
      BY <2>2, <3>1 DEF UpdateStatusQuery
    <3>3. RowShape'
      BY <3>2 DEF RowShape
    <3>4. \A m \in Rows : utr'[m] # utr[m] => m \in hit /\ utr'[m].role = utr[m].role
      BY <3>2 DEF RowShape
    <3>5. pc'[r] # pc[r]
      BY <1>2, <1>6 DEF UpdateUserStatusWrite
    <3> QED
      BY <3>2, <3>3, <3>4, <3>5 DEF Guarded, Visible
  <2> QED
    BY <2>1, <2>2
<1>7. CASE CreateWithRole(r)
  <2>1. CASE utr' = utr
    BY <1>1, <2>1
  <2>2. CASE utr' # utr
    <3>1. PICK u \in Users, m \in Rows :
            /\ utr[m] = NoRow
            /\ utr' = [utr EXCEPT ![m] = [user |-> u, tenant |-> ses[r].tenant,
                                          role |-> arg[r].role, status |-> "active"]]
      BY <1>7, <2>2 DEF CreateWithRole
    <3>2. RowShape'
      BY <3>1 DEF RowShape
    <3>3. \A n \in Rows : utr'[n] # utr[n] => utr[n] = NoRow /\ utr'[n].role = arg[r].role
      BY <3>1 DEF RowShape
    <3>4. arg[r].role \in GlobalRoles => CanSeePlatformInternals(r)
      BY <1>0, <1>7 DEF CreateWithRole, RequestOK, WriterOK
    <3>5. NoRow.role \notin GlobalRoles
      BY RoleIdsAssumption DEF NoRow, SystemRoles
    <3>6. pc'[r] # pc[r]
      BY <1>2, <1>7 DEF CreateWithRole
    <3> QED
      BY <3>2, <3>3, <3>4, <3>5, <3>6 DEF Guarded
  <2> QED
    BY <2>1, <2>2
<1>8. CASE \/ AssignUserRole(r) \/ BulkAssignUserRoles(r) \/ AssignCheck(r) \/ UpdateUserRole(r)
           \/ UpdateUserRoleAssignable(r) \/ UpdateUserRoleCheck(r) \/ RevokeUserRole(r)
           \/ UpdateUserStatus(r) \/ CreateUser(r) \/ UpdateUser(r) \/ UpdateMe(r)
           \/ UpdateUserAssignable(r) \/ UpdateUserWrite(r) \/ DeleteUser(r) \/ DeleteUserWrite(r)
           \/ ListUsers(r) \/ GetUser(r) \/ ListPendingUsers(r) \/ ListUserRoles(r) \/ GetUserRoles(r)
  <2>1. utr' = utr
    BY <1>8 DEF AssignUserRole, BulkAssignUserRoles, AssignCheck, UpdateUserRole,
         UpdateUserRoleAssignable, UpdateUserRoleCheck, RevokeUserRole, UpdateUserStatus, CreateUser,
         UpdateUser, UpdateMe, UpdateUserAssignable, UpdateUserWrite, DeleteUser, DeleteUserWrite,
         ListUsers, GetUser, ListPendingUsers, ListUserRoles, GetUserRoles
  <2> QED
    BY <1>1, <2>1
<1> QED
  BY <1>3, <1>4, <1>5, <1>6, <1>7, <1>8 DEF MembershipStep

----------------------------------------------------------------------------
(* Tenants, alarm rules, notifications.                                    *)

LEMMA RecordPreserves ==
    ASSUME PrivilegeInv, RowShape, NEW r \in Requests, RecordStep(r)
    PROVE  PrivilegeInv' /\ RowShape' /\ Guarded(r)
<1> USE DEF tables, catalogVars
<1>0. Shape /\ RequestOK(r) /\ NoEscalation
  BY DEF PrivilegeInv
<1>1. ASSUME Quiet(r) PROVE PrivilegeInv' /\ RowShape' /\ Guarded(r)
  BY <1>1, QuietPreserves DEF Quiet, RowShape, Guarded
<1>2. ASSUME Answer(r), role' = role, granted' = granted, utr' = utr PROVE Quiet(r)
  BY <1>0, <1>2, AnswerEnds DEF Quiet
<1>3. CASE UpdateTenant(r)
  <2>1. PICK t \in Tenants : Answer(r) \/ Goto(r, "tenant_write", [NoArg EXCEPT !.tenant = t])
    BY <1>3 DEF UpdateTenant, EditTenant
  <2>2. [NoArg EXCEPT !.tenant = t].shown = {}
    BY DEF NoArg
  <2> QED
    BY <1>0, <1>1, <1>2, <1>3, <2>1, <2>2, GotoMoves DEF UpdateTenant, Quiet, Watched, Early
<1>4. CASE UpdateAlarmRule(r)
  <2>1. PICK a \in AlarmRules : Answer(r) \/ Goto(r, "rule_write", [NoArg EXCEPT !.id = a])
    BY <1>4 DEF UpdateAlarmRule, EditRule
  <2>2. [NoArg EXCEPT !.id = a].shown = {}
    BY DEF NoArg
  <2> QED
    BY <1>0, <1>1, <1>2, <1>4, <2>1, <2>2, GotoMoves DEF UpdateAlarmRule, Quiet, Watched, Early
<1>5. CASE \/ CreateTenant(r) \/ UpdateTenantWrite(r) \/ CreateAlarmRule(r)
           \/ UpdateAlarmRuleWrite(r) \/ DeleteAlarmRule(r) \/ AckNotification(r)
           \/ CloseNotification(r)
  BY <1>1, <1>2, <1>5 DEF CreateTenant, UpdateTenantWrite, CreateAlarmRule, UpdateAlarmRuleWrite,
                          DeleteAlarmRule, AckNotification, CloseNotification
<1>6. CASE DeleteTenant(r)
  <2>1. PICK t \in Tenants :
          IF MayReach(r, t) /\ Deletable(t) THEN DropTenant(t)
          ELSE UNCHANGED <<tables, catalogVars, users, recordVars>>
    BY <1>6 DEF DeleteTenant
  <2>2. CASE ~(MayReach(r, t) /\ Deletable(t))
    BY <1>1, <1>2, <1>6, <2>1, <2>2 DEF DeleteTenant
  <2>3. CASE DropTenant(t) /\ Deletable(t)
    <3>1. /\ DOMAIN role' = CustomRoles
          /\ \A c \in CustomRoles : DOMAIN role'[c] = {"tenant", "perms", "alive"}
          /\ \A c \in CustomRoles : role'[c].perms \subseteq role[c].perms
      BY <1>0, <2>3 DEF DropTenant, NoRoleRow, Shape
    <3>2. NoEscalation' /\ granted \subseteq granted'
      BY <1>0, <2>3, <3>1 DEF DropTenant, NoEscalation
    <3>3. Ended(r)
      BY <1>0, <1>6, AnswerEnds DEF DeleteTenant
    <3>4. PrivilegeInv'
      BY <3>1, <3>2, <3>3, IdleOK, Preserved DEF Ended
    <3>5. RowShape'
      BY <2>3 DEF DropTenant, UtrWithout, RowShape, NoRow
    <3>6. Guarded(r)
      BY <2>3 DEF DropTenant, UtrWithout, Guarded, Deletable
    <3> QED
      BY <3>4, <3>5, <3>6
  <2> QED
    BY <2>1, <2>2, <2>3
<1>7. CASE GetAllTenants(r) \/ GetTenant(r) \/ ListAlarmRules(r) \/ ListNotifications(r)
  <2>0. NoRole \notin GlobalRoles
    BY RoleIdsAssumption DEF SystemRoles
  <2>a. \A t : MayReach(r, t) => Fit(r, {Record(t)})
    BY <2>0 DEF MayReach, Fit, Record, Shown
  <2>1. Answer(r) \/ \E S : Fit(r, S) /\ Show(r, S)
    <3>1. CASE GetAllTenants(r)
      BY <2>a, <3>1 DEF GetAllTenants, Fit
    <3>2. CASE GetTenant(r)
      BY <2>a, <3>2 DEF GetTenant
    <3>3. CASE ListAlarmRules(r)
      BY <2>0, <3>3 DEF ListAlarmRules, RulesOf, Fit, Record, Shown
    <3>4. CASE ListNotifications(r)
      BY <2>0, <3>4 DEF ListNotifications, NotificationsOf, Fit, Record, Shown
    <3> QED
      BY <1>7, <3>1, <3>2, <3>3, <3>4
  <2>2. granted' = granted /\ role' = role /\ utr' = utr
    BY <1>7 DEF GetAllTenants, GetTenant, ListAlarmRules, ListNotifications
  <2>3. CASE Answer(r)
    BY <1>1, <1>2, <2>2, <2>3
  <2>4. CASE \E S : Fit(r, S) /\ Show(r, S)
    <3>1. Frame(r) /\ RequestOK(r)'
      BY <2>2, <2>4, ShowFits
    <3>2. NoEscalation'
      BY <1>0, <2>2 DEF NoEscalation
    <3>3. PrivilegeInv'
      BY <1>0, <2>2, <3>1, <3>2, Preserved DEF Shape
    <3>4. RowShape' /\ Guarded(r)
      BY <2>2 DEF RowShape, Guarded
    <3> QED
      BY <3>3, <3>4
  <2> QED
    BY <2>1, <2>3, <2>4
<1> QED
  BY <1>3, <1>4, <1>5, <1>6, <1>7 DEF RecordStep

----------------------------------------------------------------------------
(* The theorems.                                                           *)

LEMMA Initially ==
    Start => PrivilegeInv /\ RowShape
<1> SUFFICES ASSUME Start PROVE PrivilegeInv /\ RowShape
  OBVIOUS
<1>1. Shape
  BY DEF Start, Shape, NoSession
<1>2. RowShape
  BY DEF Start, RowShape
<1>3. NoEscalation
  BY DEF Start, NoEscalation
<1>4. ASSUME NEW r \in Requests PROVE RequestOK(r)
  BY DEF Start, NoSession, NoArg, RequestOK, ContextOK, LocalsOK, WriterOK, AnswerOK, Fit, Early
<1> QED
  BY <1>1, <1>2, <1>3, <1>4 DEF PrivilegeInv

LEMMA ServePreserves ==
    ASSUME PrivilegeInv, RowShape, NEW r \in Requests, Serve(r)
    PROVE  PrivilegeInv' /\ RowShape' /\ Guarded(r)
<1>1. ASSUME utr' = utr PROVE RowShape' /\ Guarded(r)
  BY <1>1 DEF RowShape, Guarded
<1>2. CASE AccessStep(r) /\ granted' = granted
  BY <1>1, <1>2, AccessPreserves
<1>3. CASE CatalogStep(r)
  BY <1>1, <1>3, CatalogPreserves
<1>4. CASE MembershipStep(r) /\ UNCHANGED catalogVars
  BY <1>4, MembershipPreserves, MembershipRows
<1>5. CASE RecordStep(r)
  BY <1>5, RecordPreserves
<1> QED
  BY <1>2, <1>3, <1>4, <1>5 DEF Serve

LEMMA StutterPreserves ==
    ASSUME PrivilegeInv, RowShape, UNCHANGED vars
    PROVE  PrivilegeInv' /\ RowShape'
<1>1. /\ pc' = pc /\ ses' = ses /\ arg' = arg /\ role' = role /\ utr' = utr /\ granted' = granted
  BY DEF vars, tables, reqVars, catalogVars
<1>2. Shape' /\ NoEscalation' /\ RowShape'
  BY <1>1 DEF PrivilegeInv, Shape, NoEscalation, RowShape
<1>3. ASSUME NEW r \in Requests PROVE RequestOK(r)'
  BY <1>1 DEF PrivilegeInv, RequestOK, ContextOK, LocalsOK, WriterOK, AnswerOK, Fit,
              IsCrossTenantRole, CanSeePlatformInternals
<1> QED
  BY <1>2, <1>3 DEF PrivilegeInv

LEMMA Privileged == BackofficeSpec => [](PrivilegeInv /\ RowShape)
<1>1. PrivilegeInv /\ RowShape /\ [Next]_vars => (PrivilegeInv /\ RowShape)'
  BY ServePreserves, StutterPreserves DEF Next
<1> QED
  BY Initially, <1>1, PTL DEF BackofficeSpec

(* app/roles: no sequence of role and permission edits, however requests   *)
(* interleave between validation and write, puts an operator permission    *)
(* in a custom role unless a caller with a global role had granted it.     *)
THEOREM NoEscalationHolds == BackofficeSpec => []NoEscalation
<1>1. PrivilegeInv => NoEscalation
  BY DEF PrivilegeInv
<1> QED
  BY Privileged, <1>1, PTL

(* repo/pg users, user_roles and roles: no answer shows a global role to a *)
(* caller who is not super_admin, except through the column users.role.    *)
THEOREM CloakedHolds == BackofficeSpec => []Cloaked
<1>1. PrivilegeInv => Cloaked
  BY DEF PrivilegeInv, RequestOK, AnswerOK, Fit, Cloaked
<1> QED
  BY Privileged, <1>1, PTL

(* repo/pg: an answer to a caller without a cross-tenant role holds only   *)
(* records of its tenant and of the shared catalogue, whatever the other   *)
(* requests wrote since this one was let in.                               *)
THEOREM IsolatedHolds == BackofficeSpec => []Isolated
<1>1. PrivilegeInv => Isolated
  BY DEF PrivilegeInv, RequestOK, AnswerOK, Fit, Isolated
<1> QED
  BY Privileged, <1>1, PTL

(* repo/pg/user_roles and users: a membership with a global role changes   *)
(* only in a super_admin's step, whatever happened to the row since the    *)
(* handler looked at it, or with its tenant.                               *)
THEOREM PlatformGuardedHolds == BackofficeSpec => PlatformGuarded
<1> DEFINE Step == \A m \in Rows :
       utr'[m] # utr[m] /\ {utr[m].role, utr'[m].role} \cap GlobalRoles # {} =>
          \/ utr[m].tenant \in tenants \ tenants'
          \/ \E r \in Requests : pc'[r] # pc[r] /\ CanSeePlatformInternals(r)
<1>1. PrivilegeInv /\ RowShape /\ [Next]_vars => [Step]_vars
  <2> SUFFICES ASSUME PrivilegeInv, RowShape, NEW r \in Requests, Serve(r) PROVE Step
    BY DEF Next
  <2>1. Guarded(r)
    BY ServePreserves
  <2> QED
    BY <2>1 DEF Guarded
<1> QED
  BY Privileged, <1>1, PTL DEF BackofficeSpec, PlatformGuarded

----------------------------------------------------------------------------
(* The tables: their shapes, the references between them, and what every   *)
(* request carries from its lookups to its write.                          *)

\* A role names only what its tenant owns, unless its writer raced a deletion.
RoleFit(c) ==
    /\ role[c].tenant \in Tenants \cup {NoTenant, Gone}
    /\ role[c].perms \subseteq Perms
    /\ role[c].alive \in BOOLEAN
    /\ role[c].alive => role[c].tenant \in tenants
    /\ c \notin raced /\ role[c].alive =>
          \A p \in role[c].perms : p \in SystemPerms \/ permission[p] = role[c].tenant

RowFit(m) ==
    Exists(m) =>
       /\ utr[m].user \in Users /\ utr[m].role \in RoleIds
       /\ utr[m].status \in {"active", "pending", "suspended", "revoked"}
       /\ utr[m].role \in GlobalRoles \cup PlatformOnly => utr[m].tenant = Platform
       /\ utr[m].tenant \in tenants
       /\ users[utr[m].user].state \in {"alive", "deleted"}

\* The partial unique index on the active memberships.
OneActive ==
    \A m, n \in Rows :
       /\ m # n /\ Exists(m)
       /\ utr[m].user = utr[n].user /\ utr[m].tenant = utr[n].tenant
       => ~(utr[m].status = "active" /\ utr[n].status = "active")

UsersFit ==
    /\ DOMAIN users = Users
    /\ \A u \in Users : /\ DOMAIN users[u] = {"tenant", "label", "state"}
                        /\ users[u].tenant \in tenants \cup {NoTenant}

OwnersFit ==
    /\ DOMAIN permission = CustomPerms /\ DOMAIN rule = AlarmRules
    /\ \A p \in CustomPerms : permission[p] \in tenants \cup {NoTenant, Gone}
    /\ \A a \in AlarmRules : rule[a] \in tenants \cup {NoTenant, Gone}

Tables ==
    /\ tenants \subseteq Tenants
    /\ \A c \in CustomRoles : RoleFit(c)
    /\ \A m \in Rows : RowFit(m)
    /\ OneActive /\ UsersFit /\ OwnersFit

\* The role an update is for is of the caller's tenant, or went with it.
Own(r, c) ==
    \/ role[c].tenant = ses[r].tenant
    \/ role[c].tenant = Gone /\ ~role[c].alive

Known(r, P) == \A p \in P : p \in SystemPerms \/ permission[p] = ses[r].tenant

\* The transaction that deletes the permissions a.perms: they are the tenant's,
\* nobody else is deleting them, and once it has looked at the roles only those
\* it found, and those written since, hold one of them.
Alone(r, a) == \A q \in Requests \ {r} : Deleting(q) => arg[q].perms \cap a.perms = {}
Spared(r, a) ==
    \A c \in CustomRoles \ raced :
       role[c].alive /\ role[c].tenant = ses[r].tenant /\ c \notin a.roles
       => role[c].perms \cap a.perms = {}
Excises(r, l, a) ==
    /\ \A p \in a.perms : permission[p] = ses[r].tenant
    /\ Alone(r, a)
    /\ l # "perm_clean" => Spared(r, a)

\* What request r may carry in a when it stands at l.  A validated list is
\* known to the tenant as long as no deletion has tainted the request.
Naming == {"assign_check", "assign_insert", "role_assignable", "role_check", "role_write",
           "user_create"}
Carries(r, l, a) ==
    /\ l \in Pcs /\ a.perms \subseteq Perms
    /\ l \in Naming => a.role \in RoleIds
    /\ l \in {"assign_check", "assign_insert"} => a.users \subseteq Users
    /\ l = "status_write" => a.status \in {"active", "revoked", "suspended"}
    /\ l \in {"update_validate", "update_write"} => a.role \in CustomRoles /\ Own(r, a.role)
    /\ l \in {"create_insert", "update_write"} /\ r \notin tainted => Known(r, a.perms)
    /\ l \in {"perm_delete", "perm_clean", "perm_lock", "perm_commit"} =>
          a.perms \subseteq CustomPerms
    /\ l \in {"perm_clean", "perm_lock", "perm_commit"} => Excises(r, l, a)

CarriedOK(r) ==
    /\ ses[r].perms \subseteq Perms
    /\ pc[r] # "idle" => ses[r].tenant \in Tenants
    /\ Carries(r, pc[r], arg[r])

Sound == Tables /\ \A r \in Requests : CarriedOK(r)

\* What a step of request r owes the others: an owned role stays owned or
\* dies, and a validated permission keeps its owner or taints who validated it.
RolesKept ==
    \A c \in CustomRoles :
       \/ role'[c].tenant = role[c].tenant /\ (role'[c].alive => role[c].alive)
       \/ role'[c].tenant = Gone /\ ~role'[c].alive
       \/ role[c] = NoRoleRow

PermsKept(r) ==
    \A q \in Requests \ {r} :
       q \notin tainted' =>
          /\ q \notin tainted
          /\ \A p \in arg[q].perms \ SystemPerms :
                /\ pc[q] \in {"create_insert", "update_write"}
                /\ permission[p] = ses[q].tenant
                => permission'[p] = permission[p]

\* Nor does it disturb the deletion of a permission.
DeletionsKept(r) ==
    \A q \in Requests \ {r} :
       Deleting(q) =>
          /\ \A p \in arg[q].perms : permission'[p] = permission[p]
          /\ Deleting(r)' => arg'[r].perms \cap arg[q].perms = {}
          /\ pc[q] # "perm_clean" =>
                \A c \in CustomRoles \ raced' :
                   role'[c].alive /\ role'[c].tenant = ses[q].tenant /\ c \notin arg[q].roles
                   => role'[c].perms \cap arg[q].perms = {}

\* The tables and histories stay.
Still == UNCHANGED <<tenants, role, utr, permission, raced, users, rule>>

LEMMA StillTables ==
    ASSUME Tables, Still
    PROVE  Tables' /\ RolesKept
<1>1. \A c \in CustomRoles : RoleFit(c)'
  BY DEF Tables, Still, RoleFit
<1>2. (\A m \in Rows : RowFit(m)') /\ OneActive'
  BY DEF Tables, Still, RowFit, Exists, OneActive
<1>3. UsersFit' /\ OwnersFit'
  BY DEF Tables, Still, UsersFit, OwnersFit
<1>4. tenants' \subseteq Tenants /\ RolesKept
  BY DEF Tables, Still, RolesKept
<1> QED
  BY <1>1, <1>2, <1>3, <1>4 DEF Tables

\* What request q holds when it deletes a permission.
LEMMA Excising ==
    ASSUME NEW q \in Requests, CarriedOK(q), Deleting(q)
    PROVE  /\ arg[q].perms \subseteq CustomPerms /\ ses[q].tenant \in Tenants
           /\ Excises(q, pc[q], arg[q])
BY DEF CarriedOK, Carries, Deleting

\* A step that writes neither roles nor permissions.
LEMMA DeletionsRest ==
    ASSUME Sound, NEW r \in Requests, UNCHANGED <<role, permission, raced>>,
           Deleting(r)' => Alone(r, arg'[r])
    PROVE  DeletionsKept(r)
<1> SUFFICES ASSUME NEW q \in Requests \ {r}, Deleting(q)
             PROVE  /\ Deleting(r)' => arg'[r].perms \cap arg[q].perms = {}
                    /\ pc[q] # "perm_clean" =>
                         \A c \in CustomRoles \ raced :
                            role[c].alive /\ role[c].tenant = ses[q].tenant /\ c \notin arg[q].roles
                            => role[c].perms \cap arg[q].perms = {}
  BY DEF DeletionsKept
<1>1. Excises(q, pc[q], arg[q])
  BY Excising DEF Sound
<1>2. Deleting(r)' => arg'[r].perms \cap arg[q].perms = {}
  BY DEF Alone
<1> QED
  BY <1>1, <1>2 DEF Excises, Spared

\* A request keeps what it carries while others move.
LEMMA OthersCarry ==
    ASSUME NEW r \in Requests, NEW q \in Requests \ {r}, Frame(r), CarriedOK(q),
           Shape, RolesKept, PermsKept(r), DeletionsKept(r)
    PROVE  CarriedOK(q)'
<1>1. pc'[q] = pc[q] /\ ses'[q] = ses[q] /\ arg'[q] = arg[q]
  BY DEF Frame
<1> DEFINE a == arg[q]
           l == pc[q]
<1>2. /\ ses[q].perms \subseteq Perms /\ (l # "idle" => ses[q].tenant \in Tenants)
      /\ Carries(q, l, a)
  BY DEF CarriedOK
<1>3. ASSUME l \in {"update_validate", "update_write"}
      PROVE  a.role \in CustomRoles /\ Own(q, a.role)'
  <2>1. a.role \in CustomRoles /\ Own(q, a.role) /\ ses[q].tenant \in Tenants
    BY <1>2, <1>3 DEF Carries
  <2>2. PICK c \in CustomRoles : c = a.role
    BY <2>1
  <2>3. role[c] # NoRoleRow
    BY <2>1, <2>2, AccessAssumption DEF Own, NoRoleRow, Gone
  <2>4. (role[c].tenant = ses[q].tenant \/ (role[c].tenant = Gone /\ ~role[c].alive))
    BY <2>1, <2>2 DEF Own
  <2>5. (role'[c].tenant = ses[q].tenant \/ (role'[c].tenant = Gone /\ ~role'[c].alive))
    BY <2>3, <2>4 DEF RolesKept
  <2> QED
    BY <1>1, <2>1, <2>2, <2>5 DEF Own
<1>4. ASSUME l \in {"create_insert", "update_write"}, q \notin tainted'
      PROVE  Known(q, a.perms)'
  <2>1. q \notin tainted /\ Known(q, a.perms)
    BY <1>2, <1>4 DEF PermsKept, Carries
  <2>2. \A p \in a.perms : p \in SystemPerms \/ permission'[p] = ses[q].tenant
    BY <1>4, <2>1 DEF PermsKept, Known
  <2> QED
    BY <1>1, <2>2 DEF Known
<1>x. ASSUME l \in {"perm_clean", "perm_lock", "perm_commit"}
      PROVE  Excises(q, l, a)'
  <2>1. Excises(q, l, a) /\ Deleting(q)
    BY <1>2, <1>x DEF Carries, Deleting
  <2>2. \A p \in a.perms : permission'[p] = ses[q].tenant
    BY <2>1 DEF Excises, DeletionsKept
  <2>3. Alone(q, a)'
    <3>1. ASSUME NEW s \in Requests \ {q}, Deleting(s)' PROVE arg'[s].perms \cap a.perms = {}
      <4>1. CASE s = r
        BY <2>1, <3>1, <4>1 DEF DeletionsKept
      <4>2. CASE s # r
        BY <2>1, <3>1, <4>2 DEF Frame, Deleting, Excises, Alone
      <4> QED
        BY <4>1, <4>2
    <3> QED
      BY <1>1, <3>1 DEF Alone
  <2>4. l # "perm_clean" => Spared(q, a)'
    BY <1>1, <2>1 DEF DeletionsKept, Spared
  <2> QED
    BY <1>1, <2>2, <2>3, <2>4 DEF Excises
<1>5. Carries(q, l, a)'
  BY <1>1, <1>2, <1>3, <1>4, <1>x DEF Carries
<1> QED
  BY <1>1, <1>2, <1>5 DEF CarriedOK

LEMMA Settled ==
    ASSUME Sound, Shape, NEW r \in Requests, Frame(r), CarriedOK(r)', Tables', RolesKept,
           PermsKept(r), DeletionsKept(r)
    PROVE  Sound'
BY OthersCarry DEF Sound

LEMMA IdleCarries ==
    ASSUME NEW r \in Requests, Ended(r)
    PROVE  CarriedOK(r)'
BY DEF Ended, CarriedOK, Carries, NoSession, NoArg, Pcs, Naming

\* A step that only answers, or only moves its request on.
LEMMA AnswerSettles ==
    ASSUME Sound, Shape, NEW r \in Requests, Answer(r), Still, PermsKept(r)
    PROVE  Sound'
<1>1. Ended(r)
  BY AnswerEnds
<1>2. Frame(r) /\ CarriedOK(r)' /\ ~Deleting(r)'
  BY <1>1, IdleCarries DEF Ended, Deleting
<1>3. DeletionsKept(r)
  BY <1>2, DeletionsRest DEF Still
<1> QED
  BY <1>2, <1>3, Settled, StillTables DEF Sound

LEMMA GotoSettles ==
    ASSUME Sound, Shape, NEW r \in Requests, NEW l, NEW a, Goto(r, l, a), pc[r] # "idle",
           Carries(r, l, a), Still, tainted' = tainted
    PROVE  Sound'
<1>1. Frame(r) /\ pc'[r] = l /\ arg'[r] = a /\ ses'[r] = ses[r]
  BY GotoFrame
<1>a. Alone(r, a) => Alone(r, a)'
  BY <1>1 DEF Alone, Frame, Deleting
<1>b. Excises(r, l, a) => Excises(r, l, a)'
  BY <1>1, <1>a DEF Still, Excises, Spared
<1>2. Carries(r, l, a)'
  BY <1>1, <1>b DEF Still, Carries, Own, Known
<1>3. CarriedOK(r)'
  BY <1>1, <1>2 DEF Sound, CarriedOK
<1>4. PermsKept(r)
  BY DEF PermsKept, Still
<1>5. Deleting(r)' => Alone(r, arg'[r])
  BY <1>1 DEF Deleting, Carries, Excises
<1>6. DeletionsKept(r)
  BY <1>5, DeletionsRest DEF Still
<1> QED
  BY <1>1, <1>3, <1>4, <1>6, Settled, StillTables DEF Sound

LEMMA Plain ==
    ASSUME NEW r, NEW l \in Pcs, NEW a,
           l \notin Naming \cup {"status_write", "update_validate", "update_write", "create_insert",
                                "perm_delete", "perm_clean", "perm_lock", "perm_commit"},
           a.perms \subseteq Perms
    PROVE  Carries(r, l, a)
BY DEF Carries, Naming

LEMMA ShowSettles ==
    ASSUME Sound, Shape, NEW r \in Requests, NEW S, Show(r, S), pc[r] # "idle", Still,
           tainted' = tainted
    PROVE  Sound'
<1>1. [NoArg EXCEPT !.shown = S].perms \subseteq Perms
  BY DEF NoArg
<1>2. Carries(r, "answered", [NoArg EXCEPT !.shown = S])
  BY <1>1, Plain DEF Pcs, Naming
<1> QED
  BY <1>2, GotoSettles DEF Show

----------------------------------------------------------------------------
(* The pipeline keeps the tables sound.                                    *)

LEMMA AccessSound ==
    ASSUME Sound, PrivilegeInv, NEW r \in Requests, AccessStep(r), Forget(r),
           UNCHANGED <<permission, raced, users, rule>>
    PROVE  Sound'
<1> USE DEF tables
<1>0. Shape /\ CarriedOK(r) /\ Tables
  BY DEF PrivilegeInv, Sound
<1>1. Still
  BY DEF Still, AccessStep, Arrive, TenantFromHeader, ResolvePlatformOperator, TargetExists,
         LoadRolePermissions, Forbidden, Fails, Delivered
<1>2. PermsKept(r)
  BY DEF PermsKept, Forget
<1>3. ASSUME Answer(r) PROVE Sound'
  BY <1>0, <1>1, <1>2, <1>3, AnswerSettles
\* On its way to the handler a request carries nothing yet.
<1>4. ASSUME Frame(r), pc'[r] \in {"member", "operator", "target", "load", "handler"},
             ses'[r].perms \subseteq Perms, ses'[r].tenant \in Tenants, arg'[r] = arg[r]
      PROVE  Sound'
  <2>1. arg[r].perms \subseteq Perms
    BY <1>0 DEF CarriedOK, Carries
  <2>2. CarriedOK(r)'
    BY <1>4, <2>1 DEF CarriedOK, Carries, Naming, Pcs
  <2>3. ~Deleting(r)'
    BY <1>4 DEF Deleting
  <2>4. DeletionsKept(r)
    BY <1>1, <2>3, DeletionsRest DEF Still
  <2> QED
    BY <1>0, <1>1, <1>2, <1>4, <2>2, <2>4, Settled, StillTables
<1>5. CASE Arrive(r)
  <2>1. PICK w \in Callers :
          ses' = [ses EXCEPT ![r] = [NoSession EXCEPT !.user = w[1], !.tenant = w[2]]]
    BY <1>5 DEF Arrive
  <2>2. w[2] \in Tenants
    BY AccessAssumption
  <2>3. Frame(r) /\ pc'[r] = "member" /\ arg'[r] = arg[r]
    BY <1>0, <1>5, <2>1 DEF Arrive, Frame, Shape, NoSession
  <2>4. ses'[r].perms = {} /\ ses'[r].tenant = w[2]
    BY <1>0, <2>1 DEF Shape, NoSession
  <2> QED
    BY <1>4, <2>2, <2>3, <2>4
\* The middleware sets the role of the context, or nothing of it.
<1>m. ASSUME NEW x, ses' = [ses EXCEPT ![r].role = x] \/ ses' = ses,
             NEW l \in {"operator", "target", "load"}, pc' = [pc EXCEPT ![r] = l], arg' = arg,
             pc[r] # "idle"
      PROVE  Sound'
  <2>1. Frame(r) /\ pc'[r] = l /\ arg'[r] = arg[r]
    BY <1>0, <1>m DEF Frame, Shape
  <2>2. ses'[r].perms = ses[r].perms /\ ses'[r].tenant = ses[r].tenant
    BY <1>0, <1>m DEF Shape
  <2> QED
    BY <1>0, <1>4, <1>m, <2>1, <2>2 DEF CarriedOK
<1>6. CASE TenantFromHeader(r)
  BY <1>m, <1>6 DEF TenantFromHeader
<1>7. CASE ResolvePlatformOperator(r)
  BY <1>3, <1>m, <1>7 DEF ResolvePlatformOperator
<1>8. CASE TargetExists(r)
  BY <1>3, <1>m, <1>8 DEF TargetExists
<1>9. CASE LoadRolePermissions(r)
  <2>1. CASE Alive(ses[r].role)
    <3>1. RolePerms(ses[r].role) \subseteq Perms
      <4>1. CASE ses[r].role \in SystemRoles
        BY <4>1 DEF RolePerms, SystemRolePerms, Perms, SystemPerms
      <4>2. CASE ses[r].role \in CustomRoles
        BY <1>0, <4>2, RoleIdsAssumption DEF RolePerms, Tables, RoleFit
      <4> QED
        BY <2>1, <4>1, <4>2 DEF Alive
    <3>2. /\ Frame(r) /\ pc'[r] = "handler" /\ arg'[r] = arg[r]
          /\ ses'[r].tenant = ses[r].tenant /\ ses'[r].perms = RolePerms(ses[r].role)
      BY <1>0, <1>9, <2>1 DEF LoadRolePermissions, Frame, Shape
    <3> QED
      BY <1>0, <1>4, <1>9, <3>1, <3>2 DEF LoadRolePermissions, CarriedOK
  <2>2. CASE ~Alive(ses[r].role)
    BY <1>3, <1>9, <2>2 DEF LoadRolePermissions
  <2> QED
    BY <2>1, <2>2
<1>10. CASE Forbidden(r) \/ Fails(r) \/ Delivered(r)
  BY <1>3, <1>10 DEF Forbidden, Fails, Delivered
<1> QED
  BY <1>5, <1>6, <1>7, <1>8, <1>9, <1>10 DEF AccessStep

----------------------------------------------------------------------------
(* Roles and permissions.                                                  *)

\* A request that ends having written tables.
LEMMA WriterEnds ==
    ASSUME Sound, Shape, NEW r \in Requests, Answer(r), Tables', RolesKept, PermsKept(r),
           UNCHANGED <<role, permission, raced>> \/ DeletionsKept(r)
    PROVE  Sound'
<1>1. Frame(r) /\ CarriedOK(r)' /\ ~Deleting(r)'
  BY AnswerEnds, IdleCarries DEF Ended, Deleting
<1>2. DeletionsKept(r)
  BY <1>1, DeletionsRest
<1> QED
  BY <1>1, <1>2, Settled

\* The others' deletions, when r ends and writes roles.
LEMMA WriterKeeps ==
    ASSUME Sound, Shape, NEW r \in Requests, Answer(r), raced \subseteq raced',
           \A q \in Requests \ {r} :
              Deleting(q) => \A p \in arg[q].perms : permission'[p] = permission[p],
           \A c \in CustomRoles, q \in Requests \ {r} :
              /\ c \notin raced' /\ role'[c].alive
              /\ pc[q] \in {"perm_lock", "perm_commit"} /\ c \notin arg[q].roles
              => \/ role[c].alive /\ role'[c].tenant = role[c].tenant
                                 /\ role'[c].perms \subseteq role[c].perms
                 \/ role'[c].perms \cap arg[q].perms = {}
    PROVE  DeletionsKept(r)
<1>1. ~Deleting(r)'
  BY AnswerEnds DEF Ended, Deleting
<1>2. ASSUME NEW q \in Requests \ {r}, Deleting(q), pc[q] # "perm_clean",
             NEW c \in CustomRoles \ raced', role'[c].alive, role'[c].tenant = ses[q].tenant,
             c \notin arg[q].roles
      PROVE  role'[c].perms \cap arg[q].perms = {}
  <2>1. pc[q] \in {"perm_lock", "perm_commit"} /\ c \notin raced
    BY <1>2 DEF Deleting
  <2>2. Spared(q, arg[q])
    BY <1>2, Excising DEF Sound, Excises
  <2>3. \/ role[c].alive /\ role'[c].tenant = role[c].tenant
                         /\ role'[c].perms \subseteq role[c].perms
        \/ role'[c].perms \cap arg[q].perms = {}
    BY <1>2, <2>1
  <2> QED
    BY <1>2, <2>1, <2>2, <2>3 DEF Spared
<1> QED
  BY <1>1, <1>2 DEF DeletionsKept

\* Only roles changed.
LEMMA RolesTables ==
    ASSUME Tables, UNCHANGED <<tenants, utr, permission, users, rule>>,
           \A c \in CustomRoles : RoleFit(c)'
    PROVE  Tables'
<1>1. (\A m \in Rows : RowFit(m)') /\ OneActive'
  BY DEF Tables, RowFit, Exists, OneActive
<1>2. UsersFit' /\ OwnersFit'
  BY DEF Tables, UsersFit, OwnersFit
<1> QED
  BY <1>1, <1>2 DEF Tables

LEMMA InsertRoleSound ==
    ASSUME Sound, Shape, NEW r \in Requests, InsertRole(r), UNCHANGED <<users, rule>>
    PROVE  Sound'
<1>1. PICK c \in CustomRoles :
        /\ role[c] = NoRoleRow
        /\ role' = [role EXCEPT ![c] = [tenant |-> ses[r].tenant, perms |-> arg[r].perms,
                                        alive |-> TRUE]]
        /\ RecordWrite(r, c, arg[r].perms)
  BY DEF InsertRole
<1>2. /\ ses[r].tenant \in tenants /\ ses[r].tenant \in Tenants /\ arg[r].perms \subseteq Perms
      /\ r \notin tainted => Known(r, arg[r].perms)
  BY DEF InsertRole, Sound, CarriedOK, Carries
<1>3. /\ raced \subseteq raced' /\ (r \in tainted => c \in raced')
      /\ tainted' = tainted \ {r} /\ permission' = permission /\ tenants' = tenants
  BY <1>1 DEF RecordWrite, InsertRole
<1>4. /\ role'[c].tenant = ses[r].tenant /\ role'[c].perms = arg[r].perms /\ role'[c].alive = TRUE
      /\ \A d \in CustomRoles \ {c} : role'[d] = role[d]
  BY <1>1 DEF Shape
<1>5. RoleFit(c)'
  BY <1>2, <1>3, <1>4 DEF RoleFit, Known
<1>6. ASSUME NEW d \in CustomRoles \ {c} PROVE RoleFit(d)'
  BY <1>3, <1>4 DEF Sound, Tables, RoleFit
<1>7. Tables'
  BY <1>5, <1>6, RolesTables DEF Sound, InsertRole
<1>8. RolesKept /\ PermsKept(r)
  BY <1>1, <1>3, <1>4 DEF RolesKept, PermsKept
<1>9. ASSUME NEW q \in Requests, pc[q] \in {"perm_lock", "perm_commit"},
             c \notin arg[q].roles, c \notin raced'
      PROVE  role'[c].perms \cap arg[q].perms = {}
  BY <1>1, <1>4, <1>9 DEF RecordWrite, Overlooks
<1>10. DeletionsKept(r)
  <2>1. Answer(r)
    BY DEF InsertRole
  <2> QED
    BY <1>3, <1>4, <1>9, <2>1, WriterKeeps
<1> QED
  BY <1>7, <1>8, <1>10, WriterEnds DEF InsertRole

LEMMA WriteRoleSound ==
    ASSUME Sound, Shape, NEW r \in Requests, WriteRole(r), UNCHANGED <<users, rule>>
    PROVE  Sound'
<1>1. CASE ~role[arg[r].role].alive
  <2>1. Still /\ PermsKept(r)
    BY <1>1 DEF WriteRole, Still, PermsKept
  <2> QED
    BY <2>1, AnswerSettles DEF WriteRole
<1>2. CASE role[arg[r].role].alive
  <2>1. PICK c \in CustomRoles : c = arg[r].role /\ Own(r, c)
    BY DEF WriteRole, Sound, CarriedOK, Carries
  <2>2. /\ role' = [role EXCEPT ![c].perms = arg[r].perms]
        /\ RecordWrite(r, c, arg[r].perms)
    BY <1>2, <2>1 DEF WriteRole
  <2>3. /\ role[c].tenant = ses[r].tenant /\ arg[r].perms \subseteq Perms
        /\ r \notin tainted => Known(r, arg[r].perms)
    BY <1>2, <2>1 DEF WriteRole, Own, Sound, CarriedOK, Carries
  <2>4. /\ raced \subseteq raced' /\ (r \in tainted => c \in raced')
        /\ tainted' = tainted \ {r} /\ permission' = permission /\ tenants' = tenants
    BY <2>2 DEF RecordWrite, WriteRole
  <2>5. /\ role'[c].tenant = role[c].tenant /\ role'[c].perms = arg[r].perms
        /\ role'[c].alive = role[c].alive
        /\ \A d \in CustomRoles \ {c} : role'[d] = role[d]
    BY <2>2 DEF Shape
  <2>6. RoleFit(c)'
    BY <2>3, <2>4, <2>5 DEF Sound, Tables, RoleFit, Known
  <2>7. ASSUME NEW d \in CustomRoles \ {c} PROVE RoleFit(d)'
    BY <2>4, <2>5 DEF Sound, Tables, RoleFit
  <2>8. Tables'
    BY <2>6, <2>7, RolesTables DEF Sound, WriteRole
  <2>9. RolesKept /\ PermsKept(r)
    BY <2>4, <2>5 DEF RolesKept, PermsKept
  <2>10. ASSUME NEW q \in Requests, pc[q] \in {"perm_lock", "perm_commit"},
                c \notin arg[q].roles, c \notin raced'
         PROVE  role'[c].perms \cap arg[q].perms = {}
    BY <2>2, <2>5, <2>10 DEF RecordWrite, Overlooks
  <2>11. DeletionsKept(r)
    <3>1. Answer(r)
      BY DEF WriteRole
    <3> QED
      BY <2>4, <2>5, <2>10, <3>1, WriterKeeps
  <2> QED
    BY <2>8, <2>9, <2>11, WriterEnds DEF WriteRole
<1> QED
  BY <1>1, <1>2

LEMMA SoftDeleteSound ==
    ASSUME Sound, Shape, NEW r \in Requests, SoftDelete(r), UNCHANGED <<users, rule>>
    PROVE  Sound'
<1>1. \A c \in CustomRoles :
         /\ role'[c].tenant = role[c].tenant /\ role'[c].perms = role[c].perms
         /\ role'[c].alive \in {FALSE, role[c].alive}
  BY DEF SoftDelete, Shape
<1>2. UNCHANGED <<tenants, permission, raced, tainted, utr>>
  BY DEF SoftDelete, catalogVars
<1>3. ASSUME NEW c \in CustomRoles PROVE RoleFit(c)'
  BY <1>1, <1>2 DEF Sound, Tables, RoleFit
<1>4. Tables'
  BY <1>2, <1>3, RolesTables DEF Sound
<1>5. RolesKept /\ PermsKept(r)
  BY <1>1, <1>2 DEF RolesKept, PermsKept
<1>6. DeletionsKept(r)
  <2>1. Answer(r)
    BY DEF SoftDelete
  <2> QED
    BY <1>1, <1>2, <2>1, WriterKeeps
<1> QED
  BY <1>4, <1>5, <1>6, WriterEnds DEF SoftDelete

\* A new id was nobody's, so no live role and no validated list named it.
LEMMA CreatePermissionSound ==
    ASSUME Sound, Shape, NEW r \in Requests, CreatePermission(r), UNCHANGED <<users, rule>>
    PROVE  Sound'
<1>0. UNCHANGED <<tenants, role, utr, raced, tainted>>
  BY DEF CreatePermission, tables
<1>1. PICK k \in CustomPerms :
        /\ permission[k] = NoTenant /\ ses[r].tenant \in tenants
        /\ permission' = [permission EXCEPT ![k] = ses[r].tenant]
  BY DEF CreatePermission, InsertPermission
<1>2. \A p : permission[p] # NoTenant => permission'[p] = permission[p]
  BY <1>1
<1>3. \A t \in Tenants : t # NoTenant
  BY AccessAssumption
<1>4. ASSUME NEW c \in CustomRoles PROVE RoleFit(c)'
  BY <1>0, <1>2, <1>3 DEF Sound, Tables, RoleFit
<1>5. OwnersFit'
  BY <1>0, <1>1 DEF Sound, Tables, OwnersFit
<1>6. (\A m \in Rows : RowFit(m)') /\ OneActive' /\ UsersFit'
  BY <1>0 DEF Sound, Tables, RowFit, Exists, OneActive, UsersFit
<1>7. Tables'
  BY <1>0, <1>4, <1>5, <1>6 DEF Sound, Tables
<1>8. RolesKept
  BY <1>0 DEF RolesKept
<1>9. PermsKept(r)
  BY <1>0, <1>2, <1>3 DEF PermsKept, Sound, CarriedOK
<1>10. ASSUME NEW q \in Requests \ {r}, Deleting(q), NEW p \in arg[q].perms
       PROVE  permission'[p] = permission[p]
  BY <1>2, <1>3, <1>10, Excising DEF Sound, Excises
<1>11. DeletionsKept(r)
  <2>1. Answer(r)
    BY DEF CreatePermission
  <2> QED
    BY <1>0, <1>10, <2>1, WriterKeeps
<1> QED
  BY <1>7, <1>8, <1>9, <1>11, WriterEnds DEF CreatePermission

\* The commit takes the permission out of the roles the transaction found; it
\* found all that hold it but the raced ones, and whoever has validated the
\* permission is tainted.
LEMMA CommitDeletionSound ==
    ASSUME Sound, Shape, NEW r \in Requests, CommitDeletion(r), UNCHANGED <<users, rule>>
    PROVE  Sound'
<1> DEFINE t == ses[r].tenant
<1>0. UNCHANGED <<tenants, utr, raced>> /\ Answer(r) /\ Deleting(r) /\ pc[r] # "perm_clean"
  BY DEF CommitDeletion, Deleting
<1>1. PICK D, C :
               /\ D = arg[r].perms /\ C = arg[r].roles
               /\ permission' = [p \in CustomPerms |-> IF p \in D THEN Gone ELSE permission[p]]
               /\ role' = CleanRoles(C, D)
               /\ tainted' = tainted \cup {q \in Requests : HasValidated(q, D)}
  BY DEF CommitDeletion
<1>2. /\ \A p \in D : permission[p] = t
      /\ \A q \in Requests \ {r} : Deleting(q) => arg[q].perms \cap D = {}
      /\ Spared(r, arg[r])
  BY <1>0, <1>1, Excising DEF Sound, Excises, Alone
<1>3. \A c \in CustomRoles :
         /\ role'[c].tenant = role[c].tenant /\ role'[c].alive = role[c].alive
         /\ role'[c].perms \subseteq role[c].perms
         /\ c \notin raced /\ role[c].alive /\ role[c].tenant = t => role'[c].perms \cap D = {}
  <2>1. ASSUME NEW c \in CustomRoles, c \in C
        PROVE  /\ role'[c].tenant = role[c].tenant /\ role'[c].alive = role[c].alive
               /\ role'[c].perms = role[c].perms \ D
    BY <1>1, <2>1 DEF CleanRoles, Shape
  <2>2. ASSUME NEW c \in CustomRoles, c \notin C PROVE role'[c] = role[c]
    BY <1>1, <2>2 DEF CleanRoles
  <2> QED
    BY <1>1, <1>2, <2>1, <2>2 DEF Spared
<1>4. \A p \in Perms \ SystemPerms : p \notin D => permission'[p] = permission[p]
  BY <1>1 DEF Perms
<1>5. ASSUME NEW c \in CustomRoles PROVE RoleFit(c)'
  <2>1. RoleFit(c)
    BY DEF Sound, Tables
  <2>2. ASSUME c \notin raced, role[c].alive, NEW p \in role'[c].perms, p \notin SystemPerms
        PROVE  permission'[p] = role[c].tenant
    <3>1. permission[p] = role[c].tenant /\ p \in Perms /\ p \in role[c].perms
      BY <1>3, <2>1, <2>2 DEF RoleFit
    <3>2. p \notin D
      BY <1>2, <1>3, <2>2, <3>1
    <3> QED
      BY <1>4, <2>2, <3>1, <3>2
  <2> QED
    BY <1>0, <1>3, <2>1, <2>2 DEF RoleFit
<1>6. OwnersFit'
  BY <1>0, <1>1 DEF Sound, Tables, OwnersFit
<1>7. (\A m \in Rows : RowFit(m)') /\ OneActive' /\ UsersFit'
  BY <1>0 DEF Sound, Tables, RowFit, Exists, OneActive, UsersFit
<1>8. Tables'
  BY <1>0, <1>5, <1>6, <1>7 DEF Sound, Tables
<1>9. RolesKept
  BY <1>3 DEF RolesKept
<1>10. PermsKept(r)
  <2>1. ASSUME NEW q \in Requests \ {r}, q \notin tainted',
               NEW p \in arg[q].perms \ SystemPerms, pc[q] \in {"create_insert", "update_write"}
        PROVE  permission'[p] = permission[p]
    <3>1. p \notin D
      BY <1>1, <2>1 DEF HasValidated
    <3>2. p \in Perms
      BY <2>1 DEF Sound, CarriedOK, Carries
    <3> QED
      BY <1>4, <3>1, <3>2
  <2>2. tainted \subseteq tainted'
    BY <1>1
  <2> QED
    BY <2>1, <2>2 DEF PermsKept
<1>11. DeletionsKept(r)
  <2>1. ASSUME NEW q \in Requests \ {r}, Deleting(q), NEW p \in arg[q].perms
        PROVE  permission'[p] = permission[p]
    <3>1. p \in CustomPerms /\ p \notin D
      BY <1>2, <2>1, Excising DEF Sound
    <3> QED
      BY <1>1, <3>1
  <2> QED
    BY <1>0, <1>3, <2>1, WriterKeeps
<1> QED
  BY <1>0, <1>8, <1>9, <1>10, <1>11, WriterEnds

\* The statements before it: the permission is the tenant's and nobody else is
\* deleting it, and the UPDATE finds every role that holds it.
LEMMA DeletionCarries ==
    ASSUME Sound, NEW r \in Requests, DeletePermissionRow(r) \/ FindRoles(r) \/ LockRoles(r)
    PROVE  \/ Answer(r)
           \/ \E l, a : Goto(r, l, a) /\ Carries(r, l, a)
<1>0. CarriedOK(r) /\ Tables
  BY DEF Sound
<1>1. CASE DeletePermissionRow(r)
  <2>1. PICK D : D = {p \in arg[r].perms : permission[p] = ses[r].tenant}
    OBVIOUS
  <2>2. CASE D = {}
    BY <1>1, <2>1, <2>2 DEF DeletePermissionRow
  <2>3. CASE D # {}
    <3> DEFINE a == [NoArg EXCEPT !.perms = D]
    <3>1. Goto(r, "perm_clean", a)
      BY <1>1, <2>1, <2>3 DEF DeletePermissionRow
    <3>2. a.perms = D
      BY DEF NoArg
    <3>3. D \subseteq CustomPerms /\ \A p \in D : permission[p] = ses[r].tenant
      BY <1>0, <1>1, <2>1 DEF CarriedOK, Carries, DeletePermissionRow
    <3>4. \A q \in Requests \ {r} : Deleting(q) => arg[q].perms \cap D = {}
      BY <1>1, <2>1 DEF DeletePermissionRow
    <3> HIDE DEF a
    <3>5. Excises(r, "perm_clean", a)
      BY <3>2, <3>3, <3>4 DEF Excises, Alone
    <3>6. Carries(r, "perm_clean", a)
      BY <3>2, <3>3, <3>5 DEF Carries, Pcs, Naming, Perms
    <3> QED
      BY <3>1, <3>6
  <2> QED
    BY <2>2, <2>3
<1>2. CASE FindRoles(r) \/ LockRoles(r)
  <2>1. Deleting(r)
    BY <1>2 DEF FindRoles, LockRoles, Deleting
  <2>2. PICK P, C, l :
          /\ P = arg[r].perms /\ l \in {"perm_lock", "perm_commit"}
          /\ Goto(r, l, [NoArg EXCEPT !.perms = P, !.roles = C])
          /\ \/ pc[r] = "perm_clean" /\ C = RolesWith(ses[r].tenant, P)
             \/ pc[r] = "perm_lock" /\ C = arg[r].roles \cap RolesWith(ses[r].tenant, P)
    BY <1>2 DEF FindRoles, LockRoles
  <2> DEFINE a == [NoArg EXCEPT !.perms = P, !.roles = C]
  <2>3. a.perms = P /\ a.roles = C
    BY DEF NoArg
  <2>4. P \subseteq CustomPerms /\ Excises(r, pc[r], arg[r])
    BY <1>0, <2>1, <2>2, Excising
  <2> HIDE DEF a
  <2>5. Spared(r, a)
    <3> SUFFICES ASSUME NEW c \in CustomRoles \ raced, role[c].alive,
                        role[c].tenant = ses[r].tenant, c \notin C
                 PROVE  role[c].perms \cap P = {}
      BY <2>3 DEF Spared
    <3>1. CASE c \notin RolesWith(ses[r].tenant, P)
      BY <3>1 DEF RolesWith
    <3>2. CASE pc[r] = "perm_lock" /\ c \notin arg[r].roles
      BY <2>2, <2>4, <3>2 DEF Excises, Spared
    <3> QED
      BY <2>2, <3>1, <3>2
  <2>6. Excises(r, l, a)
    BY <2>2, <2>3, <2>4, <2>5 DEF Excises, Alone
  <2>7. Carries(r, l, a)
    BY <2>2, <2>3, <2>4, <2>6 DEF Carries, Pcs, Naming, Perms
  <2> QED
    BY <2>2, <2>7 DEF a
<1> QED
  BY <1>1, <1>2

LEMMA CatalogSound ==
    ASSUME Sound, PrivilegeInv, NEW r \in Requests, CatalogStep(r), UNCHANGED <<users, rule>>
    PROVE  Sound'
<1> USE DEF tables, catalogVars
<1>0. Shape /\ CarriedOK(r) /\ Tables
  BY DEF PrivilegeInv, Sound
<1>p. tainted' = tainted /\ permission' = permission => PermsKept(r)
  BY DEF PermsKept
<1>1. ASSUME Answer(r), UNCHANGED <<tables, catalogVars>> PROVE Sound'
  BY <1>0, <1>1, <1>p, AnswerSettles DEF Still
<1>2. ASSUME NEW l, NEW a, Goto(r, l, a), Carries(r, l, a), pc[r] # "idle",
             UNCHANGED <<tables, catalogVars>>
      PROVE  Sound'
  BY <1>0, <1>2, GotoSettles DEF Still
<1>3. arg[r].perms \subseteq Perms
  BY <1>0 DEF CarriedOK, Carries
<1>4. CASE CreateRole(r)
  <2>1. PICK P \in PermInputs :
          Answer(r) \/ Goto(r, "create_validate", [NoArg EXCEPT !.perms = P])
    BY <1>4 DEF CreateRole, SvcCreateRole
  <2>2. [NoArg EXCEPT !.perms = P].perms \subseteq Perms
    BY CatalogAssumption DEF NoArg
  <2>3. Carries(r, "create_validate", [NoArg EXCEPT !.perms = P])
    BY <2>2, Plain DEF Pcs, Naming
  <2> QED
    BY <1>1, <1>2, <1>4, <2>1, <2>3 DEF CreateRole, RBACCheck
<1>5. CASE CreateRoleValidate(r)
  <2>1. CASE Goto(r, "create_insert", arg[r])
             /\ UnknownPermissionIDs(ses[r].tenant, arg[r].perms) = {}
    <3>1. Known(r, arg[r].perms)
      BY <2>1 DEF Known, UnknownPermissionIDs
    <3>2. Carries(r, "create_insert", arg[r])
      BY <1>3, <3>1 DEF Carries, Pcs, Naming
    <3> QED
      BY <1>2, <1>5, <2>1, <3>2 DEF CreateRoleValidate
  <2> QED
    BY <1>1, <1>5, <2>1 DEF CreateRoleValidate
<1>6. CASE UpdateRole(r)
  <2>1. CASE Answer(r)
    BY <1>1, <1>6, <2>1 DEF UpdateRole
  <2>2. CASE ~Answer(r)
    <3>1. PICK c \in RoleIds \ SystemRoles, P \in PermInputs :
            /\ Goto(r, "update_validate",
                    [NoArg EXCEPT !.role = c, !.perms = P, !.had = role[c].perms])
            /\ OwnOrSystem(c, ses[r].tenant)
      BY <1>6, <2>2 DEF UpdateRole, SvcUpdateRole, GetByIDForTenant
    <3> DEFINE a == [NoArg EXCEPT !.role = c, !.perms = P, !.had = role[c].perms]
    <3>2. a.role = c /\ a.perms \subseteq Perms
      BY CatalogAssumption DEF NoArg
    <3>3. c \in CustomRoles /\ Own(r, c)
      BY <3>1 DEF OwnOrSystem, Own, RoleIds
    <3>4. Carries(r, "update_validate", a)
      BY <3>2, <3>3 DEF Carries, Pcs, Naming
    <3> QED
      BY <1>2, <1>6, <3>1, <3>4 DEF UpdateRole, RBACCheck
  <2> QED
    BY <2>1, <2>2
<1>7. CASE UpdateRoleValidate(r)
  <2>1. CASE Goto(r, "update_write", arg[r])
             /\ UnknownPermissionIDs(ses[r].tenant, arg[r].perms) = {}
    <3>1. Known(r, arg[r].perms)
      BY <2>1 DEF Known, UnknownPermissionIDs
    <3>2. arg[r].role \in CustomRoles /\ Own(r, arg[r].role)
      BY <1>0, <1>7 DEF UpdateRoleValidate, CarriedOK, Carries
    <3>3. Carries(r, "update_write", arg[r])
      BY <1>3, <3>1, <3>2 DEF Carries, Pcs, Naming
    <3> QED
      BY <1>2, <1>7, <2>1, <3>3 DEF UpdateRoleValidate
  <2> QED
    BY <1>1, <1>7, <2>1 DEF UpdateRoleValidate
<1>8. CASE DeleteRole(r)
  <2>1. PICK c \in RoleIds : Answer(r) \/ Goto(r, "delete_count", [NoArg EXCEPT !.role = c])
    BY <1>8 DEF DeleteRole, SvcDeleteRole
  <2>2. [NoArg EXCEPT !.role = c].perms \subseteq Perms
    BY DEF NoArg
  <2>3. Carries(r, "delete_count", [NoArg EXCEPT !.role = c])
    BY <2>2, Plain DEF Pcs, Naming
  <2> QED
    BY <1>1, <1>2, <1>8, <2>1, <2>3 DEF DeleteRole, RBACCheck
<1>9. CASE DeleteRoleCount(r)
  <2>1. Carries(r, "delete_write", arg[r])
    BY <1>3, Plain DEF Pcs, Naming
  <2> QED
    BY <1>1, <1>2, <1>9, <2>1 DEF DeleteRoleCount
<1>10. CASE DeletePermission(r)
  <2>0. CASE Answer(r)
    BY <1>1, <1>10, <2>0 DEF DeletePermission
  <2> SUFFICES ASSUME ~Answer(r) PROVE Sound'
    BY <2>0
  <2>1. PICK p \in CustomPerms : Goto(r, "perm_delete", [NoArg EXCEPT !.perms = {p}])
    BY <1>10 DEF DeletePermission, DeleteLookup, Perms
  <2>2. [NoArg EXCEPT !.perms = {p}].perms = {p} /\ {p} \subseteq Perms
    BY DEF NoArg, Perms
  <2>3. Carries(r, "perm_delete", [NoArg EXCEPT !.perms = {p}])
    BY <2>2 DEF Carries, Pcs, Naming
  <2> QED
    BY <1>1, <1>2, <1>10, <2>1, <2>3 DEF DeletePermission, RBACCheck
<1>11. CASE UpdatePermission(r)
  BY <1>1, <1>11 DEF UpdatePermission
<1>12. CASE ListRoles(r) \/ GetRole(r) \/ ListPermissions(r) \/ GetPermission(r)
  <2>1. Answer(r) \/ \E S : Show(r, S)
    BY <1>12 DEF ListRoles, GetRole, ListPermissions, GetPermission
  <2>2. pc[r] = "handler" /\ UNCHANGED <<tables, catalogVars>>
    BY <1>12 DEF ListRoles, GetRole, ListPermissions, GetPermission
  <2>3. CASE \E S : Show(r, S)
    BY <1>0, <2>2, <2>3, ShowSettles DEF Still
  <2> QED
    BY <1>1, <2>1, <2>2, <2>3
<1>13. CASE InsertRole(r) \/ WriteRole(r) \/ SoftDelete(r)
  BY <1>0, <1>13, InsertRoleSound, WriteRoleSound, SoftDeleteSound
<1>14. CASE CreatePermission(r) \/ CommitDeletion(r)
  BY <1>0, <1>14, CreatePermissionSound, CommitDeletionSound
<1>15. CASE DeletePermissionRow(r) \/ FindRoles(r) \/ LockRoles(r)
  <2>1. pc[r] # "idle" /\ UNCHANGED <<tables, catalogVars>>
    BY <1>15 DEF DeletePermissionRow, FindRoles, LockRoles
  <2> QED
    BY <1>1, <1>2, <1>15, <2>1, DeletionCarries
<1> QED
  BY <1>4, <1>5, <1>6, <1>7, <1>8, <1>9, <1>10, <1>11, <1>12, <1>13, <1>14, <1>15
  DEF CatalogStep

----------------------------------------------------------------------------
(* Memberships and users.                                                  *)

\* Only memberships changed.
LEMMA RowsTables ==
    ASSUME Tables, UNCHANGED <<tenants, role, permission, raced, users, rule>>,
           \A m \in Rows : RowFit(m)', OneActive'
    PROVE  Tables'
<1>1. (\A c \in CustomRoles : RoleFit(c)') /\ UsersFit' /\ OwnersFit'
  BY DEF Tables, RoleFit, UsersFit, OwnersFit
<1> QED
  BY <1>1 DEF Tables

\* A request that ends having written memberships.
LEMMA RowWriterEnds ==
    ASSUME Sound, Shape, NEW r \in Requests, Answer(r),
           UNCHANGED <<tenants, role, permission, raced, tainted, users, rule>>,
           \A m \in Rows : RowFit(m)', OneActive'
    PROVE  Sound'
<1>1. Tables'
  BY RowsTables DEF Sound
<1>2. RolesKept /\ PermsKept(r)
  BY DEF RolesKept, PermsKept
<1> QED
  BY <1>1, <1>2, WriterEnds

\* The trigger on the platform rule.
LEMMA PlatformRule ==
    ASSUME NEW t, NEW x, TenantCanUseRole(t, x)
    PROVE  x \in GlobalRoles \cup PlatformOnly => t = Platform
BY DEF TenantCanUseRole

\* A batch gets distinct unused rows, one per user, none of whom has an
\* active membership yet.
LEMMA AssignInsertSound ==
    ASSUME Sound, Shape, RowShape, NEW r \in Requests, AssignInsert(r), UNCHANGED <<catalogVars, rule>>
    PROVE  Sound'
<1> DEFINE t == ses[r].tenant
           x == arg[r].role
<1>0. UNCHANGED <<tenants, role, permission, raced, tainted, users, rule>>
  BY DEF AssignInsert, catalogVars
<1>a. Answer(r) /\ Tables
  BY DEF AssignInsert, Sound
<1>1. CASE UNCHANGED utr
  BY <1>0, <1>a, <1>1, AnswerSettles DEF Still, PermsKept
<1>2. CASE utr' # utr
  <2>1. PICK U : /\ U = arg[r].users
                 /\ \A u \in U : Insertable(u, t, x, CanSeePlatformInternals(r))
                 /\ \E f \in [U -> {m \in Rows : utr[m] = NoRow}] :
                      /\ \A u, v \in U : u # v => f[u] # f[v]
                      /\ utr' = [m \in Rows |->
                            IF \E u \in U : f[u] = m
                            THEN [user   |-> CHOOSE u \in U : f[u] = m, tenant |-> t,
                                  role   |-> x, status |-> "active"]
                            ELSE utr[m]]
    BY <1>2 DEF AssignInsert
  <2>2. PICK f \in [U -> {m \in Rows : utr[m] = NoRow}] :
          /\ \A u, v \in U : u # v => f[u] # f[v]
          /\ utr' = [m \in Rows |->
                IF \E u \in U : f[u] = m
                THEN [user |-> CHOOSE u \in U : f[u] = m, tenant |-> t, role |-> x,
                      status |-> "active"]
                ELSE utr[m]]
    BY <2>1
  <2>3. U \subseteq Users /\ x \in RoleIds
    BY <2>1 DEF AssignInsert, Sound, CarriedOK, Carries, Naming
  <2>4. ASSUME NEW m \in Rows
        PROVE  \/ utr'[m] = utr[m]
               \/ \E u \in U : /\ f[u] = m
                               /\ utr'[m] = [user |-> u, tenant |-> t, role |-> x,
                                             status |-> "active"]
    BY <2>2
  <2>5. ASSUME NEW m \in Rows, NEW u \in U,
               utr'[m] = [user |-> u, tenant |-> t, role |-> x, status |-> "active"]
        PROVE  RowFit(m)'
    <3>1. Insertable(u, t, x, CanSeePlatformInternals(r)) /\ u \in Users
      BY <2>1, <2>3, <2>5
    <3>2. x \in GlobalRoles \cup PlatformOnly => t = Platform
      BY <3>1, PlatformRule DEF Insertable
    <3> QED
      BY <1>0, <2>3, <2>5, <3>1, <3>2 DEF RowFit, Insertable
  <2>6. ASSUME NEW m \in Rows, utr'[m] = utr[m] PROVE RowFit(m)'
    BY <1>0, <1>a, <2>6 DEF Tables, RowFit, Exists
  <2>7. \A u \in U : u # NoUser /\ \A m \in Rows : ~Active(m, u, t)
    BY <2>1, <2>3, AccessAssumption DEF Insertable, HasActive
  <2>8. OneActive'
    <3> SUFFICES ASSUME NEW m \in Rows, NEW n \in Rows, m # n, Exists(m)',
                        utr'[m].user = utr'[n].user, utr'[m].tenant = utr'[n].tenant,
                        utr'[m].status = "active", utr'[n].status = "active"
                 PROVE  FALSE
      BY DEF OneActive
    <3>1. CASE utr'[m] = utr[m] /\ utr'[n] = utr[n]
      BY <1>a, <3>1 DEF Tables, OneActive, Exists
    <3>2. ASSUME NEW u \in U, NEW k \in Rows, utr'[k] = utr[k],
                 utr'[k].user = u, utr'[k].tenant = t, utr'[k].status = "active"
          PROVE  FALSE
      BY <2>7, <3>2 DEF Active
    <3>3. ASSUME NEW u \in U, f[u] = m,
                 utr'[m] = [user |-> u, tenant |-> t, role |-> x, status |-> "active"]
          PROVE  FALSE
      <4>1. utr'[n].user = u /\ utr'[n].tenant = t
        BY <3>3
      <4>2. utr'[n] # utr[n]
        BY <3>2, <4>1
      <4>3. PICK v \in U : f[v] = n /\ utr'[n] = [user |-> v, tenant |-> t, role |-> x,
                                                  status |-> "active"]
        BY <2>4, <4>2
      <4>4. v = u
        BY <4>1, <4>3
      <4> QED
        BY <3>3, <4>3, <4>4
    <3>4. ASSUME NEW u \in U, f[u] = n,
                 utr'[n] = [user |-> u, tenant |-> t, role |-> x, status |-> "active"],
                 utr'[m] = utr[m]
          PROVE  FALSE
      <4>1. utr'[m].user = u /\ utr'[m].tenant = t
        BY <3>4
      <4> QED
        BY <3>2, <3>4, <4>1
    <3> QED
      BY <2>4, <3>1, <3>3, <3>4
  <2>9. \A m \in Rows : RowFit(m)'
    BY <2>4, <2>5, <2>6
  <2> QED
    BY <1>0, <1>a, <2>8, <2>9, RowWriterEnds
<1> QED
  BY <1>1, <1>2

\* The tenant of a row never changes, so its role stays usable there.
LEMMA UpdateUserRoleSound ==
    ASSUME Sound, Shape, RowShape, NEW r \in Requests, UpdateUserRoleWrite(r),
           UNCHANGED <<catalogVars, rule>>
    PROVE  Sound'
<1> DEFINE k == arg[r].id
           x == arg[r].role
<1>0. UNCHANGED <<tenants, role, permission, raced, tainted, users, rule>>
  BY DEF UpdateUserRoleWrite, catalogVars
<1>a. Answer(r) /\ Tables
  BY DEF UpdateUserRoleWrite, Sound
<1>1. CASE UNCHANGED utr
  BY <1>0, <1>a, <1>1, AnswerSettles DEF Still, PermsKept
<1>2. CASE utr' # utr
  <2>1. /\ utr' = [utr EXCEPT ![k].role = x]
        /\ TenantCanUseRole(utr[k].tenant, x)
    BY <1>2 DEF UpdateUserRoleWrite, UpdateQuery
  <2>2. x \in RoleIds
    BY DEF UpdateUserRoleWrite, Sound, CarriedOK, Carries, Naming
  <2>3. \A m \in Rows :
           /\ utr'[m].user = utr[m].user /\ utr'[m].tenant = utr[m].tenant
           /\ utr'[m].status = utr[m].status
           /\ utr'[m].role = utr[m].role \/ (m = k /\ utr'[m].role = x)
    <3>1. ASSUME NEW m \in Rows, m # k PROVE utr'[m] = utr[m]
      BY <2>1, <3>1 DEF RowShape
    <3>2. ASSUME NEW m \in Rows, m = k PROVE utr'[m] = [utr[m] EXCEPT !.role = x]
      BY <2>1, <3>2 DEF RowShape
    <3> QED
      BY <3>1, <3>2, ZenonT(40) DEF RowShape
  <2>4. ASSUME NEW m \in Rows PROVE RowFit(m)'
    <3>1. utr'[m].role \in GlobalRoles \cup PlatformOnly /\ m = k /\ utr'[m].role = x
             => utr[m].tenant = Platform
      BY <2>1, PlatformRule
    <3> QED
      BY <1>0, <1>a, <2>2, <2>3, <3>1 DEF Tables, RowFit, Exists
  <2>5. OneActive'
    BY <1>a, <2>3 DEF Tables, OneActive, Exists
  <2> QED
    BY <1>0, <1>a, <2>4, <2>5, RowWriterEnds
<1> QED
  BY <1>1, <1>2

LEMMA RevokeSound ==
    ASSUME Sound, Shape, RowShape, NEW r \in Requests, RevokeWrite(r), UNCHANGED <<catalogVars, rule>>
    PROVE  Sound'
<1>0. UNCHANGED <<tenants, role, permission, raced, tainted, users, rule>>
  BY DEF RevokeWrite, catalogVars
<1>a. Answer(r) /\ Tables
  BY DEF RevokeWrite, Sound
<1>1. CASE UNCHANGED utr
  BY <1>0, <1>a, <1>1, AnswerSettles DEF Still, PermsKept
<1>2. CASE utr' # utr
  <2>1. utr' = [utr EXCEPT ![arg[r].id].status = "revoked"]
    BY <1>2 DEF RevokeWrite, RevokeQuery
  <2>2. \A m \in Rows :
           /\ utr'[m].user = utr[m].user /\ utr'[m].tenant = utr[m].tenant
           /\ utr'[m].role = utr[m].role /\ utr'[m].status \in {utr[m].status, "revoked"}
    BY <2>1 DEF RowShape
  <2>3. ASSUME NEW m \in Rows PROVE RowFit(m)'
    BY <1>0, <1>a, <2>2 DEF Tables, RowFit, Exists
  <2>4. OneActive'
    BY <1>a, <2>2 DEF Tables, OneActive, Exists
  <2> QED
    BY <1>0, <1>a, <2>3, <2>4, RowWriterEnds
<1> QED
  BY <1>1, <1>2

\* Two rows of a pair cannot be counted as at most one.
LEMMA TwoAreMore ==
    ASSUME NEW S \in SUBSET Rows, NEW m \in S, NEW n \in S, m # n
    PROVE  Cardinality(S) > 1
<1>1. IsFiniteSet(S)
  BY AccessAssumption, FS_Subset
<1>2. IsFiniteSet({m, n}) /\ Cardinality({m, n}) = 2
  <2>1. IsFiniteSet({n}) /\ Cardinality({n}) = 1
    BY FS_Singleton
  <2>2. Cardinality({n} \cup {m}) = Cardinality({n}) + 1 /\ IsFiniteSet({n} \cup {m})
    BY <2>1, FS_AddElement
  <2>3. {n} \cup {m} = {m, n}
    OBVIOUS
  <2> QED
    BY <2>1, <2>2, <2>3
<1>3. Cardinality({m, n}) <= Cardinality(S)
  BY <1>1, FS_Subset
<1>4. Cardinality(S) \in Nat
  BY <1>1, FS_CardinalityType
<1> QED
  BY <1>2, <1>3, <1>4

\* The status of a pair's rows: at most one of them may become active.
LEMMA UpdateStatusSound ==
    ASSUME Sound, Shape, RowShape, NEW r \in Requests, UpdateUserStatusWrite(r),
           UNCHANGED <<catalogVars, rule>>
    PROVE  Sound'
<1> DEFINE t == arg[r].tenant
           s == arg[r].status
<1>0. UNCHANGED <<tenants, role, permission, raced, tainted, users, rule>>
  BY DEF UpdateUserStatusWrite, catalogVars
<1>a. Answer(r) /\ Tables
  BY DEF UpdateUserStatusWrite, Sound
<1>1. CASE UNCHANGED utr
  BY <1>0, <1>a, <1>1, AnswerSettles DEF Still, PermsKept
<1>2. CASE utr' # utr
  <2>1. PICK u \in arg[r].users :
          UpdateStatusQuery(u, t, s, CanSeePlatformInternals(r))
    BY DEF UpdateUserStatusWrite
  <2> DEFINE Hit == {m \in Rows : /\ utr[m].user = u /\ utr[m].tenant = t
                                   /\ utr[m].status # "pending"
                                   /\ Visible(utr[m], CanSeePlatformInternals(r))}
             Taken == {m \in Rows \ Hit : Active(m, u, t)}
  <2>w. /\ s = "active" => ~(Cardinality(Hit \cup Taken) > 1)
        /\ utr' = [m \in Rows |-> IF m \in Hit THEN [utr[m] EXCEPT !.status = s] ELSE utr[m]]
    BY <1>2, <2>1 DEF UpdateStatusQuery
  <2>2. PICK hit \in SUBSET Rows, taken \in SUBSET Rows :
          /\ \A m \in hit : utr[m].user = u /\ utr[m].tenant = t
          /\ taken = {m \in Rows \ hit : Active(m, u, t)}
          /\ s = "active" => ~(Cardinality(hit \cup taken) > 1)
          /\ utr' = [m \in Rows |-> IF m \in hit THEN [utr[m] EXCEPT !.status = s] ELSE utr[m]]
    <3>1. (\A m \in Hit : utr[m].user = u /\ utr[m].tenant = t) /\ Hit \in SUBSET Rows
      OBVIOUS
    <3>2. Taken \in SUBSET Rows
      OBVIOUS
    <3>3. Taken = {m \in Rows \ Hit : Active(m, u, t)}
      OBVIOUS
    <3> HIDE DEF Hit, Taken
    <3> QED
      BY <2>w, <3>1, <3>2, <3>3
  <2> HIDE DEF Hit, Taken
  <2>3. s \in {"active", "revoked", "suspended"}
    BY DEF UpdateUserStatusWrite, Sound, CarriedOK, Carries
  <2>4. \A m \in Rows :
           /\ utr'[m].user = utr[m].user /\ utr'[m].tenant = utr[m].tenant
           /\ utr'[m].role = utr[m].role
           /\ utr'[m].status = IF m \in hit THEN s ELSE utr[m].status
    BY <2>2 DEF RowShape
  <2>5. ASSUME NEW m \in Rows PROVE RowFit(m)'
    BY <1>0, <1>a, <2>3, <2>4 DEF Tables, RowFit, Exists
  <2>6. OneActive'
    <3> SUFFICES ASSUME NEW m \in Rows, NEW n \in Rows, m # n, Exists(m)',
                        utr'[m].user = utr'[n].user, utr'[m].tenant = utr'[n].tenant,
                        utr'[m].status = "active", utr'[n].status = "active"
                 PROVE  FALSE
      BY DEF OneActive
    <3>1. utr[m].user = utr[n].user /\ utr[m].tenant = utr[n].tenant /\ Exists(m)
      BY <2>4 DEF Exists
    <3>2. CASE m \notin hit /\ n \notin hit
      BY <1>a, <2>4, <3>1, <3>2 DEF Tables, OneActive
    <3>3. CASE m \in hit \/ n \in hit
      <4>1. s = "active" /\ utr[m].user = u /\ utr[m].tenant = t
        BY <2>2, <2>4, <3>1, <3>3
      <4>2. m \in hit \cup taken /\ n \in hit \cup taken
        BY <2>2, <2>4, <3>1, <4>1 DEF Active
      <4> QED
        BY <2>2, <4>1, <4>2, TwoAreMore
    <3> QED
      BY <3>2, <3>3
  <2> QED
    BY <1>0, <1>a, <2>5, <2>6, RowWriterEnds
<1> QED
  BY <1>1, <1>2

\* The new user had no row: nobody's membership names an unborn user.
LEMMA CreateWithRoleSound ==
    ASSUME Sound, Shape, RowShape, NEW r \in Requests, CreateWithRole(r),
           UNCHANGED <<catalogVars, rule>>
    PROVE  Sound'
<1> DEFINE t == ses[r].tenant
           x == arg[r].role
<1>0. UNCHANGED <<tenants, role, permission, raced, tainted, rule>>
  BY DEF CreateWithRole, catalogVars
<1>a. Answer(r) /\ Tables
  BY DEF CreateWithRole, Sound
<1>1. CASE UNCHANGED <<users, utr>>
  BY <1>0, <1>a, <1>1, AnswerSettles DEF Still, PermsKept
<1>2. CASE ~UNCHANGED <<users, utr>>
  <2>1. /\ t \in tenants /\ TenantCanUseRole(t, x)
        /\ \E u \in Users, m \in Rows :
             /\ users[u] = NoUserRow /\ utr[m] = NoRow
             /\ users' = [users EXCEPT ![u] = [tenant |-> t, label |-> x, state |-> "alive"]]
             /\ utr' = [utr EXCEPT ![m] = [user |-> u, tenant |-> t, role |-> x,
                                           status |-> "active"]]
    BY <1>2 DEF CreateWithRole
  <2>2. PICK u \in Users, m \in Rows :
          /\ users[u] = NoUserRow /\ utr[m] = NoRow
          /\ users' = [users EXCEPT ![u] = [tenant |-> t, label |-> x, state |-> "alive"]]
          /\ utr' = [utr EXCEPT ![m] = [user |-> u, tenant |-> t, role |-> x,
                                        status |-> "active"]]
    BY <2>1
  <2>3. x \in RoleIds
    BY DEF CreateWithRole, Sound, CarriedOK, Carries, Naming
  <2>4. /\ utr'[m] = [user |-> u, tenant |-> t, role |-> x, status |-> "active"]
        /\ \A n \in Rows \ {m} : utr'[n] = utr[n]
        /\ users'[u] = [tenant |-> t, label |-> x, state |-> "alive"]
        /\ \A v \in Users \ {u} : users'[v] = users[v]
        /\ DOMAIN users' = Users
    BY <1>a, <2>2 DEF RowShape, Tables, UsersFit
  <2>5. \A n \in Rows : Exists(n) => utr[n].user # u
    BY <1>a, <2>2 DEF Tables, RowFit, NoUserRow
  <2>6. RowFit(m)'
    <3>1. x \in GlobalRoles \cup PlatformOnly => t = Platform
      BY <2>1, PlatformRule
    <3> QED
      BY <1>0, <2>1, <2>3, <2>4, <3>1 DEF RowFit
  <2>7. ASSUME NEW n \in Rows \ {m} PROVE RowFit(n)'
    <3>1. RowFit(n) /\ utr'[n] = utr[n]
      BY <1>a, <2>4 DEF Tables
    <3>2. Exists(n) => users'[utr[n].user] = users[utr[n].user]
      BY <2>4, <2>5, <3>1 DEF RowFit
    <3> QED
      BY <1>0, <3>1, <3>2 DEF RowFit, Exists
  <2>8. OneActive'
    <3> SUFFICES ASSUME NEW k \in Rows, NEW n \in Rows, k # n, Exists(k)',
                        utr'[k].user = utr'[n].user, utr'[k].tenant = utr'[n].tenant,
                        utr'[k].status = "active", utr'[n].status = "active"
                 PROVE  FALSE
      BY DEF OneActive
    <3>1. utr'[k].user # NoUser
      BY DEF Exists
    <3>2. CASE k # m /\ n # m
      BY <1>a, <2>4, <3>1, <3>2 DEF Tables, OneActive, Exists
    <3>3. CASE k = m
      BY <2>4, <2>5, <3>1, <3>3 DEF Exists
    <3>4. CASE n = m
      BY <2>4, <2>5, <3>1, <3>4 DEF Exists
    <3> QED
      BY <3>2, <3>3, <3>4
  <2>9. UsersFit'
    <3>1. ASSUME NEW v \in Users
          PROVE  DOMAIN users'[v] = {"tenant", "label", "state"}
                 /\ users'[v].tenant \in tenants' \cup {NoTenant}
      BY <1>0, <1>a, <2>1, <2>4 DEF Tables, UsersFit
    <3> QED
      BY <2>4, <3>1 DEF UsersFit
  <2>10. (\A c \in CustomRoles : RoleFit(c)') /\ OwnersFit'
    BY <1>0, <1>a DEF Tables, RoleFit, OwnersFit
  <2>11. Tables'
    BY <1>0, <1>a, <2>6, <2>7, <2>8, <2>9, <2>10 DEF Tables
  <2>12. RolesKept /\ PermsKept(r)
    BY <1>0 DEF RolesKept, PermsKept
  <2> QED
    BY <1>0, <1>a, <2>11, <2>12, WriterEnds
<1> QED
  BY <1>1, <1>2

\* A user is relabelled or soft deleted; only a living one is.
LEMMA UserWriteSound ==
    ASSUME Sound, Shape, NEW r \in Requests, UpdateUserWrite(r) \/ DeleteUserWrite(r),
           UNCHANGED <<catalogVars, rule>>
    PROVE  Sound'
<1>0. UNCHANGED <<tenants, role, utr, permission, raced, tainted, rule>> /\ Answer(r)
  BY DEF UpdateUserWrite, DeleteUserWrite, tables, catalogVars
<1>a. Tables
  BY DEF Sound
<1>1. ASSUME NEW u \in Users
      PROVE  /\ DOMAIN users' = Users
             /\ DOMAIN users'[u] = DOMAIN users[u] /\ users'[u].tenant = users[u].tenant
             /\ users'[u].state \in {users[u].state, "deleted"}
  <2>1. DOMAIN users[u] = {"tenant", "label", "state"}
    BY <1>a DEF Tables, UsersFit
  <2>2. CASE UpdateUserWrite(r)
    BY <2>1, <2>2 DEF UpdateUserWrite
  <2>3. CASE DeleteUserWrite(r)
    BY <2>1, <2>3 DEF DeleteUserWrite
  <2> QED
    BY <2>2, <2>3
<1>2. DOMAIN users' = Users
  BY DEF UpdateUserWrite, DeleteUserWrite
<1>3. UsersFit'
  BY <1>0, <1>a, <1>1, <1>2 DEF Tables, UsersFit
<1>4. ASSUME NEW m \in Rows PROVE RowFit(m)'
  BY <1>0, <1>a, <1>1 DEF Tables, RowFit, Exists
<1>5. (\A c \in CustomRoles : RoleFit(c)') /\ OwnersFit' /\ OneActive'
  BY <1>0, <1>a DEF Tables, RoleFit, OwnersFit, OneActive, Exists
<1>6. Tables'
  BY <1>0, <1>a, <1>3, <1>4, <1>5 DEF Tables
<1>7. RolesKept /\ PermsKept(r)
  BY <1>0 DEF RolesKept, PermsKept
<1> QED
  BY <1>0, <1>6, <1>7, WriterEnds

LEMMA MembershipSound ==
    ASSUME Sound, PrivilegeInv, RowShape, NEW r \in Requests, MembershipStep(r),
           UNCHANGED <<catalogVars, rule>>
    PROVE  Sound'
<1> USE DEF tables
<1>0. Shape /\ CarriedOK(r) /\ UNCHANGED <<permission, raced, tainted>>
  BY DEF PrivilegeInv, Sound, catalogVars
<1>1. ASSUME Answer(r), UNCHANGED <<tables, users>> PROVE Sound'
  BY <1>0, <1>1, AnswerSettles DEF Still, PermsKept
<1>2. ASSUME NEW l, NEW a, Goto(r, l, a), Carries(r, l, a), pc[r] # "idle",
             UNCHANGED <<tables, users>>
      PROVE  Sound'
  BY <1>0, <1>2, GotoSettles DEF Still
<1>3. arg[r].perms \subseteq Perms
  BY <1>0 DEF CarriedOK, Carries
\* A lookup that leads to a step of which nothing but its place is asked.
<1>4. ASSUME NEW l \in Pcs, NEW a, Goto(r, l, a), a.perms = {}, pc[r] # "idle",
             l \notin Naming \cup {"status_write", "update_validate", "update_write",
                                   "create_insert", "perm_delete", "perm_clean", "perm_lock",
                                   "perm_commit"},
             UNCHANGED <<tables, users>>
      PROVE  Sound'
  BY <1>2, <1>4, Plain
<1>5. CASE AssignUserRole(r) \/ BulkAssignUserRoles(r)
  <2>1. PICK U \in SUBSET Users, x \in RoleIds :
          Answer(r) \/ Goto(r, "assign_check", [NoArg EXCEPT !.users = U, !.role = x])
    <3>1. PICK U \in SUBSET Users : Assign(r, U)
      BY <1>5, MembershipAssumption DEF AssignUserRole, BulkAssignUserRoles
    <3> QED
      BY <3>1, MembershipAssumption DEF Assign
  <2> DEFINE a == [NoArg EXCEPT !.users = U, !.role = x]
  <2>2. a.perms = {} /\ a.users = U /\ a.role = x
    BY DEF NoArg
  <2>3. Carries(r, "assign_check", a)
    BY <2>1, <2>2 DEF Carries, Pcs, Naming
  <2> QED
    BY <1>1, <1>2, <1>5, <2>1, <2>3 DEF AssignUserRole, BulkAssignUserRoles, RBACCheck
<1>6. CASE AssignCheck(r)
  <2>1. Carries(r, "assign_insert", arg[r])
    BY <1>0, <1>6 DEF AssignCheck, CarriedOK, Carries, Pcs, Naming
  <2> QED
    BY <1>1, <1>2, <1>6, <2>1 DEF AssignCheck
<1>7. CASE UpdateUserRole(r)
  <2>1. PICK m \in Rows, x \in RoleInputs :
          Answer(r) \/ Goto(r, "role_assignable", [NoArg EXCEPT !.id = m, !.role = x])
    BY <1>7 DEF UpdateUserRole, RoleChange
  <2> DEFINE a == [NoArg EXCEPT !.id = m, !.role = x]
  <2>2. a.perms = {} /\ a.role \in RoleIds
    BY MembershipAssumption DEF NoArg
  <2>3. Carries(r, "role_assignable", a)
    BY <2>2 DEF Carries, Pcs, Naming
  <2> QED
    BY <1>1, <1>2, <1>7, <2>1, <2>3 DEF UpdateUserRole, RBACCheck
<1>8. CASE UpdateUserRoleAssignable(r)
  <2>1. Carries(r, "role_check", arg[r])
    BY <1>0, <1>8 DEF UpdateUserRoleAssignable, CarriedOK, Carries, Pcs, Naming
  <2> QED
    BY <1>1, <1>2, <1>8, <2>1 DEF UpdateUserRoleAssignable
<1>9. CASE UpdateUserRoleCheck(r)
  <2>1. Carries(r, "role_write", arg[r])
    BY <1>0, <1>9 DEF UpdateUserRoleCheck, CarriedOK, Carries, Pcs, Naming
  <2> QED
    BY <1>1, <1>2, <1>9, <2>1 DEF UpdateUserRoleCheck
<1>10. CASE RevokeUserRole(r)
  <2>1. PICK m \in Rows : Answer(r) \/ Goto(r, "revoke_write", [NoArg EXCEPT !.id = m])
    BY <1>10 DEF RevokeUserRole, Revocation
  <2>2. [NoArg EXCEPT !.id = m].perms = {}
    BY DEF NoArg
  <2> QED
    BY <1>1, <1>4, <1>10, <2>1, <2>2 DEF RevokeUserRole, RBACCheck, Pcs, Naming
<1>11. CASE UpdateUserStatus(r)
  <2>1. PICK u \in Users, s \in DOMAIN UtrStatus : SvcUpdateUserStatus(r, u, s)
    BY <1>11 DEF UpdateUserStatus
  <2>p. PICK t :
          \/ Answer(r)
          \/ Goto(r, "status_write", [NoArg EXCEPT !.users = {u}, !.status = UtrStatus[s],
                                                   !.tenant = t])
    BY <2>1 DEF SvcUpdateUserStatus
  <2> DEFINE a == [NoArg EXCEPT !.users = {u}, !.status = UtrStatus[s], !.tenant = t]
  <2>2. a.perms = {} /\ a.status = UtrStatus[s]
    BY DEF NoArg
  <2>3. UtrStatus[s] \in {"active", "revoked", "suspended"}
    BY DEF UtrStatus
  <2>4. Carries(r, "status_write", a)
    BY <2>2, <2>3 DEF Carries, Pcs, Naming
  <2> QED
    BY <1>1, <1>2, <1>11, <2>p, <2>4 DEF UpdateUserStatus, RBACCheck
<1>12. CASE CreateUser(r)
  <2>1. PICK x \in RoleInputs : Answer(r) \/ Goto(r, "user_create", [NoArg EXCEPT !.role = x])
    BY <1>12 DEF CreateUser, SvcCreateUser
  <2> DEFINE a == [NoArg EXCEPT !.role = x]
  <2>2. a.perms = {} /\ a.role \in RoleIds
    BY MembershipAssumption DEF NoArg
  <2>3. Carries(r, "user_create", a)
    BY <2>2 DEF Carries, Pcs, Naming
  <2> QED
    BY <1>1, <1>2, <1>12, <2>1, <2>3 DEF CreateUser, RBACCheck
<1>13. CASE UpdateUser(r) \/ UpdateMe(r)
  <2>1. PICK u, t, x :
          \/ Answer(r)
          \/ Goto(r, "user_write", [[NoArg EXCEPT !.users = {u}, !.tenant = t] EXCEPT !.role = x])
          \/ Goto(r, "user_assignable",
                  [[NoArg EXCEPT !.users = {u}, !.tenant = t] EXCEPT !.role = x])
    <3>1. PICK u, y, cross : LookupForUpdate(r, u, y, cross)
      BY <1>13 DEF UpdateUser, UpdateMe
    <3> QED
      BY <3>1 DEF LookupForUpdate
  <2>2. [[NoArg EXCEPT !.users = {u}, !.tenant = t] EXCEPT !.role = x].perms = {}
    BY DEF NoArg
  <2>3. UNCHANGED <<tables, users>> /\ pc[r] # "idle"
    BY <1>13 DEF UpdateUser, UpdateMe, RBACCheck
  <2> QED
    BY <1>1, <1>4, <2>1, <2>2, <2>3 DEF Pcs, Naming
<1>14. CASE UpdateUserAssignable(r)
  <2>1. Carries(r, "user_write", arg[r])
    BY <1>3, Plain DEF Pcs, Naming
  <2> QED
    BY <1>1, <1>2, <1>14, <2>1 DEF UpdateUserAssignable
<1>15. CASE DeleteUser(r)
  <2>1. PICK u, t :
          Answer(r) \/ Goto(r, "user_delete", [NoArg EXCEPT !.users = {u}, !.tenant = t])
    BY <1>15 DEF DeleteUser, SvcDeleteUser
  <2>2. [NoArg EXCEPT !.users = {u}, !.tenant = t].perms = {}
    BY DEF NoArg
  <2> QED
    BY <1>1, <1>4, <1>15, <2>1, <2>2 DEF DeleteUser, RBACCheck, Pcs, Naming
<1>16. CASE ListUsers(r) \/ GetUser(r) \/ ListPendingUsers(r) \/ ListUserRoles(r) \/ GetUserRoles(r)
  <2>1. Answer(r) \/ \E S : Show(r, S)
    <3>1. CASE GetUser(r)
      BY <3>1 DEF GetUser, SvcGetUser
    <3> QED
      BY <1>16, <3>1 DEF ListUsers, ListPendingUsers, ListUserRoles, GetUserRoles
  <2>2. pc[r] = "handler" /\ UNCHANGED <<tables, users>>
    BY <1>16 DEF ListUsers, GetUser, ListPendingUsers, ListUserRoles, GetUserRoles, RBACCheck
  <2>3. CASE \E S : Show(r, S)
    BY <1>0, <2>2, <2>3, ShowSettles DEF Still
  <2> QED
    BY <1>1, <2>1, <2>2, <2>3
<1>17. CASE AssignInsert(r) \/ UpdateUserRoleWrite(r) \/ RevokeWrite(r)
  BY <1>0, <1>17, AssignInsertSound, UpdateUserRoleSound, RevokeSound
<1>18. CASE UpdateUserStatusWrite(r) \/ CreateWithRole(r)
  BY <1>0, <1>18, UpdateStatusSound, CreateWithRoleSound
<1>19. CASE UpdateUserWrite(r) \/ DeleteUserWrite(r)
  BY <1>0, <1>19, UserWriteSound
<1> QED
  BY <1>5, <1>6, <1>7, <1>8, <1>9, <1>10, <1>11, <1>12, <1>13, <1>14, <1>15, <1>16, <1>17,
     <1>18, <1>19 DEF MembershipStep

----------------------------------------------------------------------------
(* Tenants, alarm rules, notifications.                                    *)

LEMMA CreateTenantSound ==
    ASSUME Sound, Shape, NEW r \in Requests, CreateTenant(r)
    PROVE  Sound'
<1>0. UNCHANGED <<role, utr, permission, raced, tainted, users, rule>> /\ Answer(r)
  BY DEF CreateTenant, catalogVars, recordVars
<1>1. tenants \subseteq tenants' /\ tenants' \subseteq Tenants
  BY DEF CreateTenant, InsertTenant, Sound, Tables
<1>2. \A c \in CustomRoles : RoleFit(c)'
  BY <1>0, <1>1 DEF Sound, Tables, RoleFit
<1>3. (\A m \in Rows : RowFit(m)') /\ OneActive'
  BY <1>0, <1>1 DEF Sound, Tables, RowFit, Exists, OneActive
<1>4. UsersFit' /\ OwnersFit'
  BY <1>0, <1>1 DEF Sound, Tables, UsersFit, OwnersFit
<1>5. Tables' /\ RolesKept /\ PermsKept(r)
  BY <1>0, <1>1, <1>2, <1>3, <1>4 DEF Tables, RolesKept, PermsKept
<1> QED
  BY <1>0, <1>5, WriterEnds

\* The cascade: what references the tenant goes with it, and Deletable keeps
\* the users whom a membership elsewhere names.
LEMMA DropTenantSound ==
    ASSUME Sound, Shape, RowShape, NEW r \in Requests, Answer(r), NEW t \in Tenants, Deletable(t),
           DropTenant(t)
    PROVE  Sound'
<1> USE DEF Gone
<1>0. Tables /\ t # NoTenant /\ t # Gone /\ NoTenant # Gone
  BY AccessAssumption DEF Sound
<1>1. tenants' = tenants \ {t} /\ raced' = raced
  BY DEF DropTenant
<1>2. ASSUME NEW c \in CustomRoles
      PROVE  \/ role'[c] = role[c] /\ role[c].tenant # t
             \/ role'[c] = [tenant |-> Gone, perms |-> {}, alive |-> FALSE]
  BY DEF DropTenant, NoRoleRow
<1>3. \A p \in CustomPerms :
         permission'[p] = IF permission[p] = t THEN Gone ELSE permission[p]
  BY DEF DropTenant
<1>4. ASSUME NEW c \in CustomRoles PROVE RoleFit(c)'
  <2>1. CASE role'[c] = [tenant |-> Gone, perms |-> {}, alive |-> FALSE]
    BY <2>1 DEF RoleFit
  <2>2. CASE role'[c] = role[c] /\ role[c].tenant # t
    <3>1. RoleFit(c)
      BY <1>0 DEF Tables
    <3>2. ASSUME c \notin raced, role[c].alive, NEW p \in role[c].perms, p \notin SystemPerms
          PROVE  permission'[p] = role[c].tenant
      <4>1. permission[p] = role[c].tenant /\ p \in CustomPerms
        BY <3>1, <3>2 DEF RoleFit, Perms
      <4> QED
        BY <1>3, <2>2, <4>1
    <3> QED
      BY <1>1, <2>2, <3>1, <3>2 DEF RoleFit
  <2> QED
    BY <1>2, <2>1, <2>2
<1>5. ASSUME NEW m \in Rows
      PROVE  \/ utr'[m] = utr[m] /\ utr[m].tenant # t
             \/ utr'[m].user = NoUser
  BY DEF DropTenant, UtrWithout, NoRow
<1>6. ASSUME NEW u \in Users
      PROVE  \/ users'[u] = users[u] /\ users[u].tenant # t
             \/ users[u].tenant = t
                /\ users'[u] = [tenant |-> NoTenant, label |-> NoRole, state |-> "gone"]
  BY DEF DropTenant, NoUserRow
<1>7. ASSUME NEW m \in Rows PROVE RowFit(m)'
  <2>1. CASE utr'[m].user = NoUser
    BY <2>1 DEF RowFit, Exists
  <2>2. CASE utr'[m] = utr[m] /\ utr[m].tenant # t /\ Exists(m)
    <3>1. RowFit(m) /\ utr[m].user \in Users
      BY <1>0, <2>2 DEF Tables, RowFit
    <3>2. users[utr[m].user].tenant # t
      BY <2>2 DEF Deletable
    <3>3. users'[utr[m].user] = users[utr[m].user]
      BY <1>6, <3>1, <3>2
    <3> QED
      BY <1>1, <2>2, <3>1, <3>3 DEF RowFit, Exists
  <2> QED
    BY <1>5, <2>1, <2>2 DEF Exists, RowFit
<1>8. OneActive'
  <2> SUFFICES ASSUME NEW m \in Rows, NEW n \in Rows, m # n, Exists(m)',
                      utr'[m].user = utr'[n].user, utr'[m].tenant = utr'[n].tenant,
                      utr'[m].status = "active", utr'[n].status = "active"
               PROVE  FALSE
    BY DEF OneActive
  <2>1. utr'[m].user # NoUser /\ utr'[n].user # NoUser
    BY DEF Exists
  <2>2. utr'[m] = utr[m] /\ utr'[n] = utr[n]
    BY <1>5, <2>1
  <2> QED
    BY <1>0, <2>1, <2>2 DEF Tables, OneActive, Exists
<1>9. UsersFit'
  <2>1. DOMAIN users' = Users
    BY DEF DropTenant
  <2>2. ASSUME NEW u \in Users
        PROVE  /\ DOMAIN users'[u] = {"tenant", "label", "state"}
               /\ users'[u].tenant \in tenants' \cup {NoTenant}
    BY <1>0, <1>1, <1>6 DEF Tables, UsersFit
  <2> QED
    BY <2>1, <2>2 DEF UsersFit
<1>10. OwnersFit'
  <2>1. \A a \in AlarmRules : rule'[a] = IF rule[a] = t THEN Gone ELSE rule[a]
    BY DEF DropTenant
  <2>2. DOMAIN permission' = CustomPerms /\ DOMAIN rule' = AlarmRules
    BY DEF DropTenant
  <2> QED
    BY <1>0, <1>1, <1>3, <2>1, <2>2 DEF Tables, OwnersFit
<1>11. Tables'
  BY <1>0, <1>1, <1>4, <1>7, <1>8, <1>9, <1>10 DEF Tables
<1>12. RolesKept
  BY <1>2 DEF RolesKept
<1>13. PermsKept(r)
  <2>1. PICK D : /\ D = {p \in CustomPerms : permission[p] = t}
                 /\ tainted' = tainted \cup {q \in Requests : HasValidated(q, D)}
    BY DEF DropTenant, TaintedBy
  <2>2. ASSUME NEW q \in Requests \ {r}, q \notin tainted',
               NEW p \in arg[q].perms \ SystemPerms, pc[q] \in {"create_insert", "update_write"}
        PROVE  permission'[p] = permission[p]
    <3>1. p \notin D
      BY <2>1, <2>2 DEF HasValidated
    <3>2. p \in CustomPerms
      BY <2>2 DEF Sound, CarriedOK, Carries, Perms
    <3> QED
      BY <1>3, <2>1, <3>1, <3>2
  <2>3. tainted \subseteq tainted'
    BY <2>1
  <2> QED
    BY <2>2, <2>3 DEF PermsKept
<1>14. DeletionsKept(r)
  <2>1. ASSUME NEW q \in Requests \ {r}, Deleting(q), NEW p \in arg[q].perms
        PROVE  permission'[p] = permission[p]
    <3>1. p \in CustomPerms /\ permission[p] = ses[q].tenant
      BY <2>1, Excising DEF Sound, Excises
    <3>2. ses[q].tenant # t
      BY <2>1 DEF DropTenant
    <3> QED
      BY <1>3, <3>1, <3>2
  <2>2. ASSUME NEW c \in CustomRoles, role'[c].alive PROVE role'[c] = role[c]
    BY <1>2, <2>2
  <2> QED
    BY <1>1, <2>1, <2>2, WriterKeeps
<1> QED
  BY <1>11, <1>12, <1>13, <1>14, WriterEnds

LEMMA RuleSound ==
    ASSUME Sound, Shape, NEW r \in Requests, CreateAlarmRule(r) \/ DeleteAlarmRule(r)
    PROVE  Sound'
<1>0. UNCHANGED <<tenants, role, utr, permission, raced, tainted, users>> /\ Answer(r)
  BY DEF CreateAlarmRule, DeleteAlarmRule, catalogVars, tables
<1>a. Tables
  BY DEF Sound
<1>1. OwnersFit'
  <2>1. CASE CreateAlarmRule(r)
    BY <1>0, <1>a, <2>1 DEF CreateAlarmRule, InsertRule, Tables, OwnersFit
  <2>2. CASE DeleteAlarmRule(r)
    BY <1>0, <1>a, <2>2 DEF DeleteAlarmRule, RemoveRule, Tables, OwnersFit
  <2> QED
    BY <2>1, <2>2
<1>2. (\A c \in CustomRoles : RoleFit(c)') /\ UsersFit'
  BY <1>0, <1>a DEF Tables, RoleFit, UsersFit
<1>3. (\A m \in Rows : RowFit(m)') /\ OneActive'
  BY <1>0, <1>a DEF Tables, RowFit, Exists, OneActive
<1>4. Tables' /\ RolesKept /\ PermsKept(r)
  BY <1>0, <1>a, <1>1, <1>2, <1>3 DEF Tables, RolesKept, PermsKept
<1> QED
  BY <1>0, <1>4, WriterEnds

LEMMA RecordSound ==
    ASSUME Sound, PrivilegeInv, RowShape, NEW r \in Requests, RecordStep(r)
    PROVE  Sound'
<1> USE DEF tables, catalogVars, recordVars
<1>0. Shape
  BY DEF PrivilegeInv
<1>1. ASSUME Answer(r), Still, tainted' = tainted PROVE Sound'
  BY <1>0, <1>1, AnswerSettles DEF Still, PermsKept
<1>2. ASSUME NEW l \in {"tenant_write", "rule_write"}, NEW a, Goto(r, l, a), a.perms = {},
             pc[r] # "idle", Still, tainted' = tainted
      PROVE  Sound'
  <2>1. Carries(r, l, a)
    BY <1>2, Plain DEF Pcs, Naming
  <2> QED
    BY <1>0, <1>2, <2>1, GotoSettles
<1>3. CASE UpdateTenant(r)
  <2>1. PICK t \in Tenants : Answer(r) \/ Goto(r, "tenant_write", [NoArg EXCEPT !.tenant = t])
    BY <1>3 DEF UpdateTenant, EditTenant
  <2>2. [NoArg EXCEPT !.tenant = t].perms = {}
    BY DEF NoArg
  <2> QED
    BY <1>1, <1>2, <1>3, <2>1, <2>2 DEF UpdateTenant, RBACCheck, Still
<1>4. CASE UpdateAlarmRule(r)
  <2>1. PICK a \in AlarmRules : Answer(r) \/ Goto(r, "rule_write", [NoArg EXCEPT !.id = a])
    BY <1>4 DEF UpdateAlarmRule, EditRule
  <2>2. [NoArg EXCEPT !.id = a].perms = {}
    BY DEF NoArg
  <2> QED
    BY <1>1, <1>2, <1>4, <2>1, <2>2 DEF UpdateAlarmRule, RBACCheck, Still
<1>5. CASE UpdateTenantWrite(r) \/ UpdateAlarmRuleWrite(r) \/ AckNotification(r)
           \/ CloseNotification(r)
  BY <1>1, <1>5 DEF UpdateTenantWrite, UpdateAlarmRuleWrite, AckNotification, CloseNotification,
                    Still
<1>6. CASE DeleteTenant(r)
  <2>1. PICK t \in Tenants :
          IF MayReach(r, t) /\ Deletable(t) THEN DropTenant(t)
          ELSE UNCHANGED <<tables, catalogVars, users, recordVars>>
    BY <1>6 DEF DeleteTenant
  <2>2. CASE MayReach(r, t) /\ Deletable(t)
    BY <1>0, <1>6, <2>1, <2>2, DropTenantSound DEF DeleteTenant
  <2>3. CASE ~(MayReach(r, t) /\ Deletable(t))
    BY <1>1, <1>6, <2>1, <2>3 DEF DeleteTenant, Still
  <2> QED
    BY <2>2, <2>3
<1>7. CASE GetAllTenants(r) \/ GetTenant(r) \/ ListAlarmRules(r) \/ ListNotifications(r)
  <2>1. Answer(r) \/ \E S : Show(r, S)
    BY <1>7 DEF GetAllTenants, GetTenant, ListAlarmRules, ListNotifications
  <2>2. pc[r] = "handler" /\ Still /\ tainted' = tainted
    BY <1>7 DEF GetAllTenants, GetTenant, ListAlarmRules, ListNotifications, RBACCheck, Still
  <2>3. CASE \E S : Show(r, S)
    BY <1>0, <2>2, <2>3, ShowSettles
  <2> QED
    BY <1>1, <2>1, <2>2, <2>3
<1>8. CASE CreateTenant(r) \/ CreateAlarmRule(r) \/ DeleteAlarmRule(r)
  BY <1>0, <1>8, CreateTenantSound, RuleSound
<1> QED
  BY <1>3, <1>4, <1>5, <1>6, <1>7, <1>8 DEF RecordStep

LEMMA ServeSound ==
    ASSUME Sound, PrivilegeInv, RowShape, NEW r \in Requests, Serve(r)
    PROVE  Sound'
<1> USE DEF catalogVars, recordVars
<1>1. CASE AccessStep(r) /\ Forget(r) /\ UNCHANGED <<permission, granted, raced, users, recordVars>>
  BY <1>1, AccessSound
<1>2. CASE CatalogStep(r) /\ UNCHANGED <<users, recordVars>>
  BY <1>2, CatalogSound
<1>3. CASE MembershipStep(r) /\ UNCHANGED <<catalogVars, recordVars>>
  BY <1>3, MembershipSound
<1>4. CASE RecordStep(r)
  BY <1>4, RecordSound
<1> QED
  BY <1>1, <1>2, <1>3, <1>4 DEF Serve

LEMMA StutterSound ==
    ASSUME Sound, UNCHANGED vars
    PROVE  Sound'
<1>1. Still /\ UNCHANGED <<pc, ses, arg, tainted>>
  BY DEF vars, tables, reqVars, catalogVars, recordVars, Still
<1>2. Tables'
  BY <1>1, StillTables DEF Sound
<1>3. ASSUME NEW r \in Requests PROVE CarriedOK(r)'
  <2>1. Excises(r, pc[r], arg[r]) => Excises(r, pc[r], arg[r])'
    BY <1>1 DEF Excises, Alone, Spared, Deleting, Still
  <2> QED
    BY <1>1, <2>1 DEF Sound, CarriedOK, Carries, Own, Known, Still
<1> QED
  BY <1>2, <1>3 DEF Sound

LEMMA StartSound == Start => Sound
<1> SUFFICES ASSUME Start PROVE Sound
  OBVIOUS
<1>1. BackofficeTypeOK /\ DanglingOnlyByRace /\ NoOrphans
  BY DEF Start
<1>2. ASSUME NEW c \in CustomRoles PROVE RoleFit(c)
  BY <1>1 DEF BackofficeTypeOK, DanglingOnlyByRace, NoOrphans, RoleFit
<1>3. ASSUME NEW m \in Rows PROVE RowFit(m)
  BY <1>1 DEF BackofficeTypeOK, NoOrphans, RowFit
<1>4. OneActive
  BY <1>1 DEF BackofficeTypeOK, OneActive, Active
<1>5. UsersFit /\ OwnersFit
  BY <1>1 DEF Start, NoOrphans, UsersFit, OwnersFit, NoUserRow
<1>6. ASSUME NEW r \in Requests PROVE CarriedOK(r)
  <2>1. pc[r] = "idle" /\ ses[r].perms = {} /\ arg[r].perms = {}
    BY DEF Start, NoSession, NoArg
  <2> QED
    BY <2>1 DEF CarriedOK, Carries, Pcs, Naming
<1> QED
  BY <1>1, <1>2, <1>3, <1>4, <1>5, <1>6 DEF Sound, Tables, BackofficeTypeOK

LEMMA Soundness == BackofficeSpec => []Sound
<1>1. Sound /\ PrivilegeInv /\ RowShape /\ [Next]_vars => Sound'
  BY ServeSound, StutterSound DEF Next
<1> QED
  BY StartSound, Privileged, <1>1, PTL DEF BackofficeSpec

(* repo/pg users, user_roles, roles: whatever requests interleave, every   *)
(* row keeps its shape, no user has two active memberships in a tenant,    *)
(* and no platform role is held outside the platform tenant.               *)
THEOREM BackofficeTyped == BackofficeSpec => []BackofficeTypeOK
<1>1. Sound => BackofficeTypeOK
  <2> SUFFICES ASSUME Sound PROVE BackofficeTypeOK
    OBVIOUS
  <2>1. ASSUME NEW m \in Rows, Exists(m), NEW n \in Rows \ {m}
        PROVE  ~(Active(m, utr[n].user, utr[n].tenant) /\ utr[n].status = "active")
    BY <2>1 DEF Sound, Tables, OneActive, Active
  <2>2. ASSUME NEW m \in Rows, Exists(m)
        PROVE  /\ utr[m].user \in Users /\ utr[m].role \in RoleIds
               /\ utr[m].status \in {"active", "pending", "suspended", "revoked"}
               /\ utr[m].role \in GlobalRoles \cup PlatformOnly => utr[m].tenant = Platform
    BY <2>2 DEF Sound, Tables, RowFit
  <2>3. \A r \in Requests : pc[r] \in Pcs /\ ses[r].perms \subseteq Perms
    BY DEF Sound, CarriedOK, Carries
  <2>4. \A c \in CustomRoles : /\ role[c].tenant \in Tenants \cup {NoTenant, Gone}
                               /\ role[c].perms \subseteq Perms
                               /\ role[c].alive \in BOOLEAN
    BY DEF Sound, Tables, RoleFit
  <2> QED
    BY <2>1, <2>2, <2>3, <2>4 DEF BackofficeTypeOK, Sound, Tables
<1> QED
  BY Soundness, <1>1, PTL

(* Schema and repo/pg: no role, permission, membership, user or alarm rule *)
(* outlives its tenant, although handlers looked at the tenant in earlier  *)
(* statements, and every membership is of a user that exists.              *)
THEOREM BackofficeNoOrphans == BackofficeSpec => []NoOrphans
<1>1. Sound => NoOrphans
  BY DEF Sound, Tables, RoleFit, RowFit, UsersFit, OwnersFit, NoOrphans
<1> QED
  BY Soundness, <1>1, PTL

(* app/roles and app/permissions: a live role names a permission that is   *)
(* not in its tenant's catalogue only if its writer had validated the list *)
(* before a deletion committed and wrote the role after the deletion had   *)
(* looked at the roles; the transaction of Delete misses no other role,    *)
(* whatever deletions, editions and tenants' ends run beside it.           *)
THEOREM BackofficeDangling == BackofficeSpec => []DanglingOnlyByRace
<1>1. Sound => DanglingOnlyByRace
  BY DEF Sound, Tables, RoleFit, DanglingOnlyByRace
<1> QED
  BY Soundness, <1>1, PTL

----------------------------------------------------------------------------
(* Deleted roles, and the limit of custom roles: what a step may do to the *)
(* roles and the rows, and what it must have looked at to come close to a  *)
(* write.                                                                  *)

\* About to put the role it carries in a membership.
Assigning == {"assign_insert", "role_write", "user_create"}

\* Past the limit of custom roles, and not yet inserted.
Creating == {"create_validate", "create_insert"}

\* Whoever comes to write a role saw it alive, whoever comes to create one
\* counted less than the limit.
Entered(r) ==
    /\ Frame(r)
    /\ pc'[r] \in Assigning => Alive(arg'[r].role)
    /\ pc'[r] \in Creating =>
          /\ ses'[r].tenant = ses[r].tenant
          /\ \/ pc[r] \in Creating
             \/ CountCustomByTenant(ses[r].tenant) < MaxCustomRolesPerTenant

\* No role came to life, changed hands or lost its owner.
NoNewRole ==
    \A c \in CustomRoles :
       /\ role'[c].alive => role[c].alive /\ role'[c].tenant = role[c].tenant
       /\ role[c].tenant # NoTenant => role'[c].tenant # NoTenant

\* A row got no role but the one the request was about to write.
Named(r) ==
    \A m \in Rows :
       utr'[m].role # utr[m].role =>
          utr'[m].role = NoRole \/ (pc[r] \in Assigning /\ utr'[m].role = arg[r].role)

LEMMA AnswerEnters ==
    ASSUME Shape, NEW r \in Requests, Answer(r)
    PROVE  Entered(r)
BY AnswerEnds DEF Ended, Entered, Assigning, Creating

LEMMA GotoEnters ==
    ASSUME Shape, NEW r \in Requests, NEW l, NEW a, Goto(r, l, a),
           l \in Assigning => Alive(a.role),
           l \in Creating => \/ pc[r] \in Creating
                             \/ CountCustomByTenant(ses[r].tenant) < MaxCustomRolesPerTenant
    PROVE  Entered(r)
<1>1. Frame(r) /\ pc'[r] = l /\ arg'[r] = a /\ ses'[r] = ses[r]
  BY GotoFrame
<1> QED
  BY <1>1 DEF Entered

\* Any other place needs nothing.
LEMMA ElsewhereEnters ==
    ASSUME Shape, NEW r \in Requests, NEW l, NEW a, Goto(r, l, a),
           l \notin Assigning \cup Creating
    PROVE  Entered(r)
BY GotoEnters

LEMMA ShowEnters ==
    ASSUME Shape, NEW r \in Requests, NEW S, Show(r, S)
    PROVE  Entered(r)
BY ElsewhereEnters DEF Show, Assigning, Creating

LEMMA AccessEnters ==
    ASSUME Shape, NEW r \in Requests, AccessStep(r)
    PROVE  Entered(r) /\ role' = role /\ utr' = utr
<1> USE DEF tables
<1>1. role' = role /\ utr' = utr
  BY DEF AccessStep, Arrive, TenantFromHeader, ResolvePlatformOperator, TargetExists,
         LoadRolePermissions, Forbidden, Fails, Delivered
<1>2. ASSUME Answer(r) PROVE Entered(r)
  BY <1>2, AnswerEnters
<1>3. ASSUME Frame(r), pc'[r] \in {"member", "operator", "target", "load", "handler"}
      PROVE  Entered(r)
  BY <1>3 DEF Entered, Assigning, Creating
<1>4. CASE Arrive(r)
  BY <1>3, <1>4 DEF Arrive, Frame, Shape, NoSession
<1>5. CASE TenantFromHeader(r)
  BY <1>3, <1>5 DEF TenantFromHeader, Frame, Shape
<1>6. CASE ResolvePlatformOperator(r)
  BY <1>2, <1>3, <1>6 DEF ResolvePlatformOperator, Frame, Shape
<1>7. CASE TargetExists(r)
  BY <1>2, <1>3, <1>7 DEF TargetExists, Frame, Shape
<1>8. CASE LoadRolePermissions(r)
  BY <1>2, <1>3, <1>8 DEF LoadRolePermissions, Frame, Shape
<1>9. CASE Forbidden(r) \/ Fails(r) \/ Delivered(r)
  BY <1>2, <1>9 DEF Forbidden, Fails, Delivered
<1> QED
  BY <1>1, <1>4, <1>5, <1>6, <1>7, <1>8, <1>9 DEF AccessStep

LEMMA CatalogEnters ==
    ASSUME Shape, NEW r \in Requests, CatalogStep(r)
    PROVE  Entered(r) /\ utr' = utr /\ (NoNewRole \/ InsertRole(r))
<1> USE DEF tables, catalogVars
<1>1. utr' = utr
  BY DEF CatalogStep, CreateRole, CreateRoleValidate, InsertRole, UpdateRole, UpdateRoleValidate,
         WriteRole, DeleteRole, DeleteRoleCount, SoftDelete, CreatePermission, UpdatePermission,
         DeletePermission, DeletePermissionRow, FindRoles, LockRoles, CommitDeletion, ListRoles,
         GetRole, ListPermissions, GetPermission
<1>2. role' = role => NoNewRole
  BY DEF NoNewRole
<1>3. ASSUME Answer(r) PROVE Entered(r)
  BY <1>3, AnswerEnters
<1>4. ASSUME NEW l, NEW a, Goto(r, l, a), l \notin Assigning \cup Creating PROVE Entered(r)
  BY <1>4, ElsewhereEnters
<1>5. CASE CreateRole(r)
  <2>1. PICK P \in PermInputs : SvcCreateRole(r, P)
    BY <1>5 DEF CreateRole
  <2>2. CASE CountCustomByTenant(ses[r].tenant) < MaxCustomRolesPerTenant
    <3>1. Goto(r, "create_validate", [NoArg EXCEPT !.perms = P])
      BY <2>1, <2>2 DEF SvcCreateRole
    <3>2. "create_validate" \notin Assigning
      BY DEF Assigning
    <3>3. Entered(r)
      BY <2>2, <3>1, <3>2, GotoEnters
    <3> QED
      BY <1>1, <1>2, <1>5, <3>3 DEF CreateRole
  <2>3. CASE ~(CountCustomByTenant(ses[r].tenant) < MaxCustomRolesPerTenant)
    BY <1>1, <1>2, <1>3, <1>5, <2>1, <2>3 DEF CreateRole, SvcCreateRole
  <2> QED
    BY <2>2, <2>3
<1>6. CASE CreateRoleValidate(r)
  <2>1. CASE Goto(r, "create_insert", arg[r])
    <3>1. "create_insert" \notin Assigning /\ pc[r] \in Creating
      BY <1>6 DEF Assigning, Creating, CreateRoleValidate
    <3>2. Entered(r)
      BY <2>1, <3>1, GotoEnters
    <3> QED
      BY <1>1, <1>2, <1>6, <3>2 DEF CreateRoleValidate
  <2> QED
    BY <1>1, <1>2, <1>3, <1>6, <2>1 DEF CreateRoleValidate
<1>7. CASE InsertRole(r)
  BY <1>1, <1>3, <1>7 DEF InsertRole
<1>8. CASE UpdateRole(r)
  BY <1>1, <1>2, <1>3, <1>4, <1>8 DEF UpdateRole, SvcUpdateRole, Assigning, Creating
<1>9. CASE UpdateRoleValidate(r)
  BY <1>1, <1>2, <1>3, <1>4, <1>9 DEF UpdateRoleValidate, Assigning, Creating
<1>10. CASE WriteRole(r)
  <2>1. CASE role' = role
    BY <1>1, <1>2, <1>3, <1>10, <2>1 DEF WriteRole
  <2>2. CASE role' = [role EXCEPT ![arg[r].role].perms = arg[r].perms]
    <3>1. \A c \in CustomRoles : role'[c].alive = role[c].alive /\ role'[c].tenant = role[c].tenant
      BY <2>2 DEF Shape
    <3>2. NoNewRole
      BY <3>1 DEF NoNewRole
    <3> QED
      BY <1>1, <1>3, <1>10, <3>2 DEF WriteRole
  <2> QED
    BY <1>10, <2>1, <2>2 DEF WriteRole
<1>11. CASE DeleteRole(r)
  BY <1>1, <1>2, <1>3, <1>4, <1>11 DEF DeleteRole, SvcDeleteRole, Assigning, Creating
<1>12. CASE DeleteRoleCount(r)
  BY <1>1, <1>2, <1>3, <1>4, <1>12 DEF DeleteRoleCount, Assigning, Creating
<1>13. CASE SoftDelete(r)
  <2>1. \A c \in CustomRoles :
           role'[c].tenant = role[c].tenant /\ role'[c].alive \in {FALSE, role[c].alive}
    BY <1>13 DEF SoftDelete, Shape
  <2>2. NoNewRole
    BY <2>1 DEF NoNewRole
  <2> QED
    BY <1>1, <1>3, <1>13, <2>2 DEF SoftDelete
<1>14. CASE CreatePermission(r) \/ UpdatePermission(r)
  BY <1>1, <1>2, <1>3, <1>14 DEF CreatePermission, UpdatePermission
<1>15. CASE DeletePermission(r)
  BY <1>1, <1>2, <1>3, <1>4, <1>15 DEF DeletePermission, DeleteLookup, Assigning, Creating
<1>16. CASE CommitDeletion(r)
  <2>1. PICK C, D : role' = CleanRoles(C, D)
    BY <1>16 DEF CommitDeletion
  <2>2. \A c \in CustomRoles : role'[c].alive = role[c].alive /\ role'[c].tenant = role[c].tenant
    BY <2>1 DEF CleanRoles, Shape
  <2>3. NoNewRole
    BY <2>2 DEF NoNewRole
  <2> QED
    BY <1>1, <1>3, <1>16, <2>3 DEF CommitDeletion
<1>18. CASE DeletePermissionRow(r) \/ FindRoles(r) \/ LockRoles(r)
  <2>1. \/ Answer(r)
        \/ \E a : \/ Goto(r, "perm_clean", a) \/ Goto(r, "perm_lock", a)
                 \/ Goto(r, "perm_commit", a)
    BY <1>18 DEF DeletePermissionRow, FindRoles, LockRoles
  <2>2. role' = role
    BY <1>18 DEF DeletePermissionRow, FindRoles, LockRoles
  <2> QED
    BY <1>1, <1>2, <1>3, <1>4, <2>1, <2>2 DEF Assigning, Creating
<1>17. CASE ListRoles(r) \/ GetRole(r) \/ ListPermissions(r) \/ GetPermission(r)
  <2>1. Answer(r) \/ \E S : Show(r, S)
    BY <1>17 DEF ListRoles, GetRole, ListPermissions, GetPermission
  <2>2. role' = role
    BY <1>17 DEF ListRoles, GetRole, ListPermissions, GetPermission
  <2> QED
    BY <1>1, <1>2, <1>3, <2>1, <2>2, ShowEnters
<1> QED
  BY <1>5, <1>6, <1>7, <1>8, <1>9, <1>10, <1>11, <1>12, <1>13, <1>14, <1>15, <1>16, <1>17,
     <1>18
  DEF CatalogStep

LEMMA MembershipEnters ==
    ASSUME Shape, RowShape, NEW r \in Requests, MembershipStep(r)
    PROVE  Entered(r) /\ role' = role /\ Named(r)
<1> USE DEF tables
<1>1. role' = role
  BY DEF MembershipStep, AssignUserRole, BulkAssignUserRoles, AssignCheck, AssignInsert,
         UpdateUserRole, UpdateUserRoleAssignable, UpdateUserRoleCheck, UpdateUserRoleWrite,
         RevokeUserRole, RevokeWrite, UpdateUserStatus, UpdateUserStatusWrite, CreateUser,
         CreateWithRole, UpdateUser, UpdateMe, UpdateUserAssignable, UpdateUserWrite, DeleteUser,
         DeleteUserWrite, ListUsers, GetUser, ListPendingUsers, ListUserRoles, GetUserRoles
<1>2. utr' = utr => Named(r)
  BY DEF Named
<1>3. ASSUME Answer(r) PROVE Entered(r)
  BY <1>3, AnswerEnters
<1>4. ASSUME NEW l, NEW a, Goto(r, l, a), l \notin Assigning \cup Creating PROVE Entered(r)
  BY <1>4, ElsewhereEnters
\* The checks: the role they let through is alive.
<1>5. ASSUME NEW l \in Assigning, NEW a, Goto(r, l, a), Alive(a.role) PROVE Entered(r)
  <2>1. l \notin Creating
    BY DEF Assigning, Creating
  <2> QED
    BY <1>5, <2>1, GotoEnters
<1>6. CASE AssignCheck(r)
  BY <1>1, <1>2, <1>3, <1>5, <1>6 DEF AssignCheck, CheckRoleAllowedForTenant, Assigning
<1>7. CASE UpdateUserRoleCheck(r)
  BY <1>1, <1>2, <1>3, <1>5, <1>7 DEF UpdateUserRoleCheck, CheckRoleAllowedForTenant, Assigning
<1>8. CASE CreateUser(r)
  <2>1. PICK x \in RoleInputs : SvcCreateUser(r, x)
    BY <1>8 DEF CreateUser
  <2>2. [NoArg EXCEPT !.role = x].role = x
    BY DEF NoArg
  <2>3. CASE Goto(r, "user_create", [NoArg EXCEPT !.role = x]) /\ Alive(x)
    BY <1>1, <1>2, <1>5, <1>8, <2>2, <2>3 DEF CreateUser, Assigning
  <2> QED
    BY <1>1, <1>2, <1>3, <1>8, <2>1, <2>3
    DEF CreateUser, SvcCreateUser, EnsureAssignable, GetByIDForTenant
\* The writes.
<1>9. CASE AssignInsert(r)
  <2>1. CASE utr' = utr
    BY <1>1, <1>2, <1>3, <1>9, <2>1 DEF AssignInsert
  <2>2. CASE utr' # utr
    <3> DEFINE U == arg[r].users
    <3>1. PICK f \in [U -> {m \in Rows : utr[m] = NoRow}] :
            utr' = [m \in Rows |->
                      IF \E u \in U : f[u] = m
                      THEN [user |-> CHOOSE u \in U : f[u] = m, tenant |-> ses[r].tenant,
                            role |-> arg[r].role, status |-> "active"]
                      ELSE utr[m]]
      BY <1>9, <2>2 DEF AssignInsert
    <3>2. \A m \in Rows : utr'[m] # utr[m] => utr'[m].role = arg[r].role
      BY <3>1
    <3>3. Named(r)
      BY <1>9, <3>2 DEF Named, AssignInsert, Assigning
    <3> QED
      BY <1>1, <1>3, <1>9, <3>3 DEF AssignInsert
  <2> QED
    BY <2>1, <2>2
<1>10. CASE UpdateUserRoleWrite(r)
  <2>1. CASE utr' = utr
    BY <1>1, <1>2, <1>3, <1>10, <2>1 DEF UpdateUserRoleWrite
  <2>2. CASE utr' # utr
    <3>1. utr' = [utr EXCEPT ![arg[r].id].role = arg[r].role]
      BY <1>10, <2>2 DEF UpdateUserRoleWrite, UpdateQuery
    <3>2. \A m \in Rows : utr'[m] # utr[m] => utr'[m].role = arg[r].role
      BY <3>1 DEF RowShape
    <3>3. Named(r)
      BY <1>10, <3>2 DEF Named, UpdateUserRoleWrite, Assigning
    <3> QED
      BY <1>1, <1>3, <1>10, <3>3 DEF UpdateUserRoleWrite
  <2> QED
    BY <2>1, <2>2
<1>11. CASE RevokeWrite(r)
  <2>1. CASE utr' = utr
    BY <1>1, <1>2, <1>3, <1>11, <2>1 DEF RevokeWrite
  <2>2. CASE utr' # utr
    <3>1. utr' = [utr EXCEPT ![arg[r].id].status = "revoked"]
      BY <1>11, <2>2 DEF RevokeWrite, RevokeQuery
    <3>2. \A m \in Rows : utr'[m].role = utr[m].role
      BY <3>1 DEF RowShape
    <3> QED
      BY <1>1, <1>3, <1>11, <3>2 DEF RevokeWrite, Named
  <2> QED
    BY <2>1, <2>2
<1>12. CASE UpdateUserStatusWrite(r)
  <2>1. CASE utr' = utr
    BY <1>1, <1>2, <1>3, <1>12, <2>1 DEF UpdateUserStatusWrite
  <2>2. CASE utr' # utr
    <3>1. PICK u \in arg[r].users :
            UpdateStatusQuery(u, arg[r].tenant, arg[r].status, CanSeePlatformInternals(r))
      BY <1>12 DEF UpdateUserStatusWrite
    <3>2. PICK hit \in SUBSET Rows :
            utr' = [m \in Rows |-> IF m \in hit THEN [utr[m] EXCEPT !.status = arg[r].status]
                                                ELSE utr[m]]
      BY <2>2, <3>1 DEF UpdateStatusQuery
    <3>3. \A m \in Rows : utr'[m].role = utr[m].role
      BY <3>2 DEF RowShape
    <3> QED
      BY <1>1, <1>3, <1>12, <3>3 DEF UpdateUserStatusWrite, Named
  <2> QED
    BY <2>1, <2>2
<1>13. CASE CreateWithRole(r)
  <2>1. CASE utr' = utr
    BY <1>1, <1>2, <1>3, <1>13, <2>1 DEF CreateWithRole
  <2>2. CASE utr' # utr
    <3>1. PICK u \in Users, m \in Rows :
            utr' = [utr EXCEPT ![m] = [user |-> u, tenant |-> ses[r].tenant,
                                       role |-> arg[r].role, status |-> "active"]]
      BY <1>13, <2>2 DEF CreateWithRole
    <3>2. \A n \in Rows : utr'[n] # utr[n] => utr'[n].role = arg[r].role
      BY <3>1 DEF RowShape
    <3>3. Named(r)
      BY <1>13, <3>2 DEF Named, CreateWithRole, Assigning
    <3> QED
      BY <1>1, <1>3, <1>13, <3>3 DEF CreateWithRole
  <2> QED
    BY <2>1, <2>2
\* The lookups.
<1>14. CASE AssignUserRole(r) \/ BulkAssignUserRoles(r)
  BY <1>1, <1>2, <1>3, <1>4, <1>14
  DEF AssignUserRole, BulkAssignUserRoles, Assign, Assigning, Creating
<1>15. CASE UpdateUserRole(r) \/ UpdateUserRoleAssignable(r) \/ RevokeUserRole(r)
  BY <1>1, <1>2, <1>3, <1>4, <1>15
  DEF UpdateUserRole, RoleChange, UpdateUserRoleAssignable, RevokeUserRole, Revocation,
      Assigning, Creating
<1>16. CASE UpdateUserStatus(r)
  <2>1. Answer(r) \/ \E a : Goto(r, "status_write", a)
    BY <1>16 DEF UpdateUserStatus, SvcUpdateUserStatus
  <2> QED
    BY <1>1, <1>2, <1>3, <1>4, <1>16, <2>1 DEF UpdateUserStatus, Assigning, Creating
<1>17. CASE UpdateUser(r) \/ UpdateMe(r)
  <2>1. PICK u, x, z : LookupForUpdate(r, u, x, z)
    BY <1>17 DEF UpdateUser, UpdateMe
  <2>2. \/ Answer(r)
        \/ \E a : Goto(r, "user_write", a) \/ Goto(r, "user_assignable", a)
    BY <2>1 DEF LookupForUpdate
  <2> QED
    BY <1>1, <1>2, <1>3, <1>4, <1>17, <2>2 DEF UpdateUser, UpdateMe, Assigning, Creating
<1>18. CASE UpdateUserAssignable(r) \/ UpdateUserWrite(r) \/ DeleteUserWrite(r)
  BY <1>1, <1>2, <1>3, <1>4, <1>18
  DEF UpdateUserAssignable, UpdateUserWrite, DeleteUserWrite, Assigning, Creating
<1>19. CASE DeleteUser(r)
  <2>1. Answer(r) \/ \E a : Goto(r, "user_delete", a)
    BY <1>19 DEF DeleteUser, SvcDeleteUser
  <2> QED
    BY <1>1, <1>2, <1>3, <1>4, <1>19, <2>1 DEF DeleteUser, Assigning, Creating
<1>20. CASE \/ ListUsers(r) \/ GetUser(r) \/ ListPendingUsers(r) \/ ListUserRoles(r)
            \/ GetUserRoles(r)
  <2>1. Answer(r) \/ \E S : Show(r, S)
    BY <1>20 DEF ListUsers, GetUser, SvcGetUser, ListPendingUsers, ListUserRoles, GetUserRoles
  <2>2. utr' = utr
    BY <1>20 DEF ListUsers, GetUser, ListPendingUsers, ListUserRoles, GetUserRoles
  <2> QED
    BY <1>1, <1>2, <1>3, <2>1, <2>2, ShowEnters
<1> QED
  BY <1>6, <1>7, <1>8, <1>9, <1>10, <1>11, <1>12, <1>13, <1>14, <1>15, <1>16, <1>17, <1>18,
     <1>19, <1>20
  DEF MembershipStep

LEMMA RecordEnters ==
    ASSUME Shape, RowShape, NEW r \in Requests, RecordStep(r)
    PROVE  Entered(r) /\ NoNewRole /\ Named(r)
<1> USE DEF tables, catalogVars
<1>1. ASSUME role' = role, utr' = utr PROVE NoNewRole /\ Named(r)
  BY <1>1 DEF NoNewRole, Named
<1>2. ASSUME Answer(r) PROVE Entered(r)
  BY <1>2, AnswerEnters
<1>3. ASSUME NEW l \in {"tenant_write", "rule_write"}, NEW a, Goto(r, l, a) PROVE Entered(r)
  BY <1>3, ElsewhereEnters DEF Assigning, Creating
<1>4. CASE UpdateTenant(r) \/ UpdateAlarmRule(r)
  <2>1. Answer(r) \/ \E a : Goto(r, "tenant_write", a) \/ Goto(r, "rule_write", a)
    BY <1>4 DEF UpdateTenant, EditTenant, UpdateAlarmRule, EditRule
  <2> QED
    BY <1>1, <1>2, <1>3, <1>4, <2>1 DEF UpdateTenant, UpdateAlarmRule
<1>5. CASE \/ CreateTenant(r) \/ UpdateTenantWrite(r) \/ CreateAlarmRule(r)
           \/ UpdateAlarmRuleWrite(r) \/ DeleteAlarmRule(r) \/ AckNotification(r)
           \/ CloseNotification(r)
  BY <1>1, <1>2, <1>5 DEF CreateTenant, UpdateTenantWrite, CreateAlarmRule, UpdateAlarmRuleWrite,
                          DeleteAlarmRule, AckNotification, CloseNotification
<1>6. CASE DeleteTenant(r)
  <2>1. PICK t \in Tenants :
          DropTenant(t) \/ UNCHANGED <<tables, catalogVars, users, recordVars>>
    BY <1>6 DEF DeleteTenant
  <2>2. CASE UNCHANGED <<tables, catalogVars, users, recordVars>>
    BY <1>1, <1>2, <1>6, <2>2 DEF DeleteTenant
  <2>3. CASE DropTenant(t)
    <3>1. \A c \in CustomRoles :
             role'[c] = role[c] \/ (role'[c].tenant = Gone /\ role'[c].alive = FALSE)
      BY <2>3 DEF DropTenant, NoRoleRow
    <3>2. NoNewRole
      BY <3>1, AccessAssumption DEF NoNewRole, Gone
    <3>3. Named(r)
      BY <2>3 DEF DropTenant, UtrWithout, NoRow, Named
    <3> QED
      BY <1>2, <1>6, <3>2, <3>3 DEF DeleteTenant
  <2> QED
    BY <2>1, <2>2, <2>3
<1>7. CASE GetAllTenants(r) \/ GetTenant(r) \/ ListAlarmRules(r) \/ ListNotifications(r)
  <2>1. Answer(r) \/ \E S : Show(r, S)
    BY <1>7 DEF GetAllTenants, GetTenant, ListAlarmRules, ListNotifications
  <2>2. role' = role /\ utr' = utr
    BY <1>7 DEF GetAllTenants, GetTenant, ListAlarmRules, ListNotifications
  <2> QED
    BY <1>1, <1>2, <2>1, <2>2, ShowEnters
<1> QED
  BY <1>4, <1>5, <1>6, <1>7 DEF RecordStep

LEMMA ServeEnters ==
    ASSUME Shape, RowShape, NEW r \in Requests, Serve(r)
    PROVE  Entered(r) /\ Named(r) /\ (NoNewRole \/ InsertRole(r))
<1>1. role' = role => NoNewRole
  BY DEF NoNewRole
<1>2. utr' = utr => Named(r)
  BY DEF Named
<1> QED
  BY <1>1, <1>2, AccessEnters, CatalogEnters, MembershipEnters, RecordEnters DEF Serve

(* app/roles DeleteRole against user_roles and users: once a role is       *)
(* deleted and nobody who had found it alive is still writing, it gains no *)
(* membership, by whichever of the three ways, and never comes back.       *)
THEOREM BackofficeRetires == BackofficeSpec => RetiredForGood
<1> DEFINE Step == \A c \in CustomRoles :
       Retired(c) => /\ Retired(c)'
                     /\ \A m \in Rows : utr'[m].role = c => utr[m].role = c
<1>1. PrivilegeInv /\ RowShape /\ [Next]_vars => [Step]_vars
  <2> SUFFICES ASSUME PrivilegeInv, RowShape, NEW r \in Requests, Serve(r),
                      NEW c \in CustomRoles, Retired(c)
               PROVE  Retired(c)' /\ \A m \in Rows : utr'[m].role = c => utr[m].role = c
    BY DEF Next
  <2>1. Entered(r) /\ Named(r) /\ (NoNewRole \/ InsertRole(r))
    BY ServeEnters DEF PrivilegeInv
  <2>2. ~role[c].alive /\ role[c].tenant # NoTenant
    BY DEF Retired
  <2>3. ~role'[c].alive /\ role'[c].tenant # NoTenant
    <3>1. CASE NoNewRole
      BY <2>2, <3>1 DEF NoNewRole
    <3>2. CASE InsertRole(r)
      <4>1. PICK d \in CustomRoles :
              /\ role[d] = NoRoleRow
              /\ role' = [role EXCEPT ![d] = [tenant |-> ses[r].tenant, perms |-> arg[r].perms,
                                              alive |-> TRUE]]
        BY <3>2 DEF InsertRole
      <4>2. d # c
        BY <2>2, <4>1 DEF NoRoleRow
      <4>3. role'[c] = role[c]
        BY <4>1, <4>2
      <4> QED
        BY <2>2, <4>3
    <3> QED
      BY <2>1, <3>1, <3>2
  <2>4. ASSUME NEW q \in Requests PROVE ~(pc'[q] \in Assigning /\ arg'[q].role = c)
    <3>1. CASE q = r
      BY <2>1, <2>2, <3>1, RoleIdsAssumption DEF Entered, Alive
    <3>2. CASE q # r
      BY <2>1, <3>2 DEF Entered, Frame, Retired, Assigning
    <3> QED
      BY <3>1, <3>2
  <2>5. ASSUME NEW m \in Rows, utr'[m].role = c, utr[m].role # c PROVE FALSE
    BY <2>1, <2>5, RoleIdsAssumption DEF Named, Retired, Assigning
  <2> QED
    BY <2>3, <2>4, <2>5 DEF Retired, Assigning
<1> QED
  BY Privileged, <1>1, PTL DEF BackofficeSpec, RetiredForGood

----------------------------------------------------------------------------
(* The limit.  Whoever is past the count may still insert, so the tenant's *)
(* roles and its creators are bounded together: the last creator to be let *)
(* in counted less than the limit, and there are no more than requests.    *)

CustomOf(t) == {c \in CustomRoles : role[c].alive /\ role[c].tenant = t}
Creators(t) == {r \in Requests : pc[r] \in Creating /\ ses[r].tenant = t}

Room(t) ==
    Creators(t) # {} =>
       Cardinality(CustomOf(t)) + Cardinality(Creators(t))
          < MaxCustomRolesPerTenant + Cardinality(Requests)

LEMMA Sizes ==
    ASSUME NEW t
    PROVE  /\ IsFiniteSet(CustomOf(t)) /\ Cardinality(CustomOf(t)) \in Nat
           /\ IsFiniteSet(Creators(t)) /\ Cardinality(Creators(t)) \in Nat
           /\ Cardinality(Creators(t)) <= Cardinality(Requests)
           /\ Cardinality(Requests) \in Nat /\ MaxCustomRolesPerTenant \in Nat
           /\ CountCustomByTenant(t) = Cardinality(CustomOf(t))
           /\ Creators(t) # {} => Cardinality(Creators(t)) >= 1
<1>1. CustomOf(t) \subseteq CustomRoles /\ Creators(t) \subseteq Requests
  BY DEF CustomOf, Creators
<1>2. IsFiniteSet(CustomOf(t)) /\ IsFiniteSet(Creators(t))
  BY <1>1, AccessAssumption, FS_Subset
<1>3. Cardinality(Creators(t)) <= Cardinality(Requests)
  BY <1>1, AccessAssumption, FS_Subset
<1>4. Cardinality(CustomOf(t)) \in Nat /\ Cardinality(Creators(t)) \in Nat
        /\ Cardinality(Requests) \in Nat
  BY <1>2, AccessAssumption, FS_CardinalityType
<1>5. Creators(t) # {} => Cardinality(Creators(t)) # 0
  BY <1>2, FS_EmptySet
<1>6. CountCustomByTenant(t) = Cardinality(CustomOf(t))
  BY DEF CountCustomByTenant, CustomOf
<1> QED
  BY <1>2, <1>3, <1>4, <1>5, <1>6, CatalogAssumption

LEMMA SizesNext ==
    ASSUME NEW t
    PROVE  /\ Cardinality(CustomOf(t)') \in Nat /\ Cardinality(Creators(t)') \in Nat
           /\ Cardinality(Creators(t)') <= Cardinality(Requests)
           /\ CountCustomByTenant(t)' = Cardinality(CustomOf(t)')
<1>1. CustomOf(t)' \subseteq CustomRoles /\ Creators(t)' \subseteq Requests
  BY DEF CustomOf, Creators
<1>2. IsFiniteSet(CustomOf(t)') /\ IsFiniteSet(Creators(t)')
  BY <1>1, AccessAssumption, FS_Subset
<1>3. Cardinality(Creators(t)') <= Cardinality(Requests)
  BY <1>1, AccessAssumption, FS_Subset
<1>4. CountCustomByTenant(t)' = Cardinality(CustomOf(t)')
  BY DEF CountCustomByTenant, CustomOf
<1> QED
  BY <1>2, <1>3, <1>4, FS_CardinalityType

\* A step without a new role.
LEMMA NoNewRoleRoom ==
    ASSUME NEW r \in Requests, NEW t, Entered(r), NoNewRole, Room(t)
    PROVE  /\ Room(t)' /\ Cardinality(CustomOf(t)') <= Cardinality(CustomOf(t))
<1>1. CustomOf(t)' \subseteq CustomOf(t)
  BY DEF CustomOf, NoNewRole
<1>2. Cardinality(CustomOf(t)') <= Cardinality(CustomOf(t))
  BY <1>1, Sizes, FS_Subset
<1>3. CASE Creators(t)' \subseteq Creators(t)
  <2>1. Cardinality(Creators(t)') <= Cardinality(Creators(t))
    BY <1>3, Sizes, FS_Subset
  <2>2. ASSUME Creators(t)' # {}
        PROVE  Cardinality(CustomOf(t)') + Cardinality(Creators(t)')
                  < MaxCustomRolesPerTenant + Cardinality(Requests)
    <3>1. Cardinality(CustomOf(t)) + Cardinality(Creators(t))
             < MaxCustomRolesPerTenant + Cardinality(Requests)
      BY <1>3, <2>2 DEF Room
    <3> QED
      BY <1>2, <2>1, <3>1, Sizes, SizesNext
  <2> QED
    BY <1>2, <2>2 DEF Room
<1>4. CASE ~(Creators(t)' \subseteq Creators(t))
  <2>1. PICK q \in Requests : /\ pc'[q] \in Creating /\ ses'[q].tenant = t
                              /\ ~(pc[q] \in Creating /\ ses[q].tenant = t)
    BY <1>4 DEF Creators
  <2>2. q = r
    BY <2>1 DEF Entered, Frame
  <2>3. ses[r].tenant = t /\ CountCustomByTenant(t) < MaxCustomRolesPerTenant
    BY <2>1, <2>2 DEF Entered
  <2>4. Cardinality(CustomOf(t)') + Cardinality(Creators(t)')
           < MaxCustomRolesPerTenant + Cardinality(Requests)
    BY <1>2, <2>3, Sizes, SizesNext
  <2> QED
    BY <1>2, <2>4 DEF Room
<1> QED
  BY <1>3, <1>4

\* The insertion: a creator becomes a role.
LEMMA InsertRoom ==
    ASSUME Shape, NEW r \in Requests, NEW t, InsertRole(r), Room(t)
    PROVE  /\ Room(t)'
           /\ \/ Cardinality(CustomOf(t)') <= Cardinality(CustomOf(t))
              \/ Cardinality(CustomOf(t)') < MaxCustomRolesPerTenant + Cardinality(Requests)
<1>1. PICK c \in CustomRoles :
        /\ role[c] = NoRoleRow
        /\ role' = [role EXCEPT ![c] = [tenant |-> ses[r].tenant, perms |-> arg[r].perms,
                                        alive |-> TRUE]]
  BY DEF InsertRole
<1>2. /\ role'[c].alive /\ role'[c].tenant = ses[r].tenant
      /\ ~role[c].alive
      /\ \A d \in CustomRoles \ {c} : role'[d] = role[d]
  BY <1>1 DEF Shape, NoRoleRow
<1>3. Frame(r) /\ pc'[r] = "idle"
  BY AnswerEnds DEF InsertRole, Ended
<1>4. Creators(t)' = Creators(t) \ {r}
  BY <1>3 DEF Creators, Frame, Creating
<1>5. CASE ses[r].tenant = t
  <2>1. r \in Creators(t)
    BY <1>5 DEF InsertRole, Creators, Creating
  <2>2. CustomOf(t)' = CustomOf(t) \cup {c} /\ c \notin CustomOf(t)
    BY <1>2, <1>5 DEF CustomOf
  <2>3. Cardinality(CustomOf(t)') = Cardinality(CustomOf(t)) + 1
    BY <2>2, Sizes, FS_AddElement
  <2>4. Cardinality(Creators(t)') = Cardinality(Creators(t)) - 1
    BY <1>4, <2>1, Sizes, FS_RemoveElement
  <2>5. /\ Cardinality(CustomOf(t)) + Cardinality(Creators(t))
              < MaxCustomRolesPerTenant + Cardinality(Requests)
        /\ Cardinality(Creators(t)) >= 1
    BY <2>1, Sizes DEF Room
  <2>6. /\ Cardinality(CustomOf(t)') + Cardinality(Creators(t)')
              < MaxCustomRolesPerTenant + Cardinality(Requests)
        /\ Cardinality(CustomOf(t)') < MaxCustomRolesPerTenant + Cardinality(Requests)
    BY <2>3, <2>4, <2>5, Sizes
  <2> QED
    BY <2>6 DEF Room
<1>6. CASE ses[r].tenant # t
  <2>1. CustomOf(t)' = CustomOf(t)
    BY <1>2, <1>6 DEF CustomOf
  <2>2. Creators(t)' = Creators(t)
    BY <1>4, <1>6 DEF Creators
  <2>3. Cardinality(CustomOf(t)') <= Cardinality(CustomOf(t))
    BY <2>1, Sizes
  <2> QED
    BY <2>1, <2>2, <2>3 DEF Room
<1> QED
  BY <1>5, <1>6

LEMMA ServeRoom ==
    ASSUME PrivilegeInv, RowShape, NEW r \in Requests, Serve(r), NEW t, Room(t)
    PROVE  /\ Room(t)'
           /\ \/ Cardinality(CustomOf(t)') <= Cardinality(CustomOf(t))
              \/ Cardinality(CustomOf(t)') < MaxCustomRolesPerTenant + Cardinality(Requests)
<1>1. Shape /\ Entered(r) /\ (NoNewRole \/ InsertRole(r))
  BY ServeEnters DEF PrivilegeInv
<1> QED
  BY <1>1, NoNewRoleRoom, InsertRoom

LEMMA Roomy == BackofficeSpec => [](\A t \in Tenants : Room(t))
<1>1. Start => \A t \in Tenants : Room(t)
  BY DEF Start, Room, Creators, Creating
<1>2. PrivilegeInv /\ RowShape /\ (\A t \in Tenants : Room(t)) /\ [Next]_vars
        => (\A t \in Tenants : Room(t))'
  <2> SUFFICES ASSUME PrivilegeInv, RowShape, [Next]_vars, NEW t \in Tenants, Room(t)
               PROVE  Room(t)'
    OBVIOUS
  <2>1. CASE Next
    BY <2>1, ServeRoom DEF Next
  <2>2. CASE UNCHANGED vars
    BY <2>2 DEF vars, tables, reqVars, Room, CustomOf, Creators
  <2> QED
    BY <2>1, <2>2
<1> QED
  BY <1>1, <1>2, Privileged, PTL DEF BackofficeSpec

(* app/roles CreateRole: the count and the INSERT are two statements, and  *)
(* nothing holds the tenant in between; still n requests at once take a    *)
(* tenant to at most n - 1 roles more than the limit.                      *)
THEOREM BackofficeRoleLimit == BackofficeSpec => RoleLimitBounded
<1> DEFINE Step == \A t \in Tenants :
       CountCustomByTenant(t)' > CountCustomByTenant(t) =>
          CountCustomByTenant(t)' < MaxCustomRolesPerTenant + Cardinality(Requests)
<1>1. PrivilegeInv /\ RowShape /\ (\A t \in Tenants : Room(t)) /\ [Next]_vars => [Step]_vars
  <2> SUFFICES ASSUME PrivilegeInv, RowShape, NEW r \in Requests, Serve(r),
                      NEW t \in Tenants, Room(t),
                      CountCustomByTenant(t)' > CountCustomByTenant(t)
               PROVE  CountCustomByTenant(t)' < MaxCustomRolesPerTenant + Cardinality(Requests)
    BY DEF Next
  <2>1. \/ Cardinality(CustomOf(t)') <= Cardinality(CustomOf(t))
        \/ Cardinality(CustomOf(t)') < MaxCustomRolesPerTenant + Cardinality(Requests)
    BY ServeRoom
  <2> QED
    BY <2>1, Sizes, SizesNext
<1> QED
  BY Privileged, Roomy, <1>1, PTL DEF BackofficeSpec, RoleLimitBounded

=============================================================================
