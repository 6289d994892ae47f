---------------------------- MODULE MCBackoffice ----------------------------
(***************************************************************************)
(* A platform with one client tenant: root is super_admin and boss admin   *)
(* of the platform, ann runs the client tenant, bob works for the platform *)
(* and has had, or has been offered, the custom role c1 at the client,     *)
(* which is the one role the limit allows there and may have been deleted. *)
(***************************************************************************)
EXTENDS Backoffice, TLC

CONSTANTS r1, r2, root, boss, ann, bob, eve, mrg, acme, neo, c1, c2, c3, k1, k2,
          m1, m2, m3, m4, m5, m6, m7, a1, a2, n1

MCCallers == {<<root, mrg>>, <<boss, mrg>>, <<boss, acme>>, <<ann, acme>>, <<bob, acme>>}
MCRoleInputs == {"super_admin", "operario", "cliente_operario", c1}
MCPermInputs == {{}, {"perm_tenants_manage"}, {k1, "perm_users_manage"}}
MCBatches == {{ann, bob}, {bob, eve}}

Member(u, t, x, s) == [user |-> u, tenant |-> t, role |-> x, status |-> s]
Account(t, x) == [tenant |-> t, label |-> x, state |-> "alive"]

InitRows ==
    (m1 :> Member(root, mrg, "super_admin", "active")) @@
    (m2 :> Member(boss, mrg, "admin", "active")) @@
    (m3 :> Member(ann, acme, "cliente_admin", "active")) @@
    (m4 :> Member(bob, mrg, "operario", "active"))

Database ==
    /\ tenants = {mrg, acme}
    /\ \E s \in {"active", "pending", "revoked"} :
          utr = InitRows @@ (m5 :> Member(bob, acme, c1, s)) @@ [m \in Rows |-> NoRow]
    /\ \E on \in {TRUE, utr[m5].status # "revoked"} :
          role = [c \in CustomRoles |->
                    IF c = c1 THEN [tenant |-> acme, perms |-> {k1, "perm_users_manage"},
                                    alive |-> on]
                              ELSE NoRoleRow]
    /\ users = (root :> Account(mrg, "super_admin")) @@ (boss :> Account(mrg, "admin"))
               @@ (ann :> Account(acme, "cliente_admin")) @@ (bob :> Account(NoTenant, "user"))
               @@ [u \in Users |-> NoUserRow]
    /\ permission = [p \in CustomPerms |-> IF p = k1 THEN acme ELSE NoTenant]
    /\ rule = [a \in AlarmRules |-> IF a = a1 THEN acme ELSE NoTenant]
    /\ notification = [n \in Notifications |-> [tenant |-> acme, status |-> "unread"]]

Init == Database /\ Start

Spec == Init /\ [][Next]_vars

Symmetry == Permutations(Requests) \cup Permutations({m6, m7}) \cup Permutations({c2, c3})

=============================================================================
