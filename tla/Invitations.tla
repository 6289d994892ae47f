---------------------------- MODULE Invitations -----------------------------
(***************************************************************************)
(* The life of one invited address: invitations of several tenants to the  *)
(* same person, and the requests of that person, each of which provisions  *)
(* the user and, while the user is still 'invited', runs                   *)
(* ActivatePendingInvitations (internal/api/usecases, called by JWTAuth).  *)
(*                                                                         *)
(* Nothing here runs in a transaction: every UPDATE is a step, any of them *)
(* may fail, requests of the same person overlap, and the administrators   *)
(* go on inviting, revoking invitations and removing members meanwhile.    *)
(***************************************************************************)
EXTENDS Naturals, FiniteSets

CONSTANTS
    Tenants,
    Invs,        \* invitations that may be created
    InvTenant,   \* invitation -> tenant
    Sessions,    \* slots for requests of the invited person
    Admins,      \* slots for CreateInvitation calls in progress
    NoInv,       \* the invitation of a free slot
    MaxFaults    \* bound on failed writes in a behaviour

ASSUME InvitationsAssumption ==
    /\ InvTenant \in [Invs -> Tenants]
    /\ NoInv \notin Invs
    /\ MaxFaults \in Nat

VARIABLES
    inv,         \* invitation -> its status in user_invitations, or none
    late,        \* invitations past expires_at
    member,      \* tenant -> none, active, revoked (user_tenant_roles)
    status,      \* users.status: none (no row yet), invited, active
    mustChange,  \* users.password_change_required
    flagged,     \* whether mustChange was ever set
    sess,        \* slot -> locals of JWTAuth and ActivatePendingInvitations
    admin,       \* slot -> locals of CreateInvitation
    faults

userVars == <<status, mustChange, flagged>>
vars     == <<inv, late, member, userVars, sess, admin, faults>>

NoSession == [pc |-> "idle", todo |-> {}, cur |-> NoInv, activated |-> FALSE]
NoAdmin   == [pc |-> "idle", cur |-> NoInv]

Init ==
    /\ inv = [i \in Invs |-> "none"]
    /\ late = {}
    /\ member = [t \in Tenants |-> "none"]
    /\ status = "none" /\ mustChange = FALSE /\ flagged = FALSE
    /\ sess = [s \in Sessions |-> NoSession]
    /\ admin = [a \in Admins |-> NoAdmin]
    /\ faults = 0

Fault == faults < MaxFaults /\ faults' = faults + 1

Pending == {i \in Invs : inv[i] = "pending"}

(* UpdateStatus: the row is overwritten whatever its status was.           *)
UpdateStatus(i, s) == inv' = [inv EXCEPT ![i] = s]

-----------------------------------------------------------------------------
(* CreateInvitation.  GetPendingByEmailAndTenant only refuses earlier what *)
(* the index refuses at the INSERT: it lets through a call that races with *)
(* another, or whose rival is an invitation the caller may not see.        *)
InviteCheck(a, i) ==
    /\ admin[a].pc = "idle"
    /\ inv[i] = "none"
    /\ \A b \in Admins : admin[b].cur # i
    /\ admin' = [admin EXCEPT ![a] = [pc |-> "insert", cur |-> i]]
    /\ UNCHANGED <<inv, late, member, userVars, sess, faults>>

(* Create under idx_user_invitations_pending; 23505 becomes                *)
(* ErrInvitationAlreadyPending.                                            *)
InviteInsert(a) ==
    LET i     == admin[a].cur
        clash == \E j \in Pending : InvTenant[j] = InvTenant[i]
    IN  /\ admin[a].pc = "insert"
        /\ inv' = IF clash THEN inv ELSE [inv EXCEPT ![i] = "pending"]
        /\ admin' = [admin EXCEPT ![a] = IF clash THEN NoAdmin
                                         ELSE [pc |-> "mail", cur |-> i]]
        /\ UNCHANGED <<late, member, userVars, sess, faults>>

InviteInsertFails(a) ==
    /\ admin[a].pc = "insert"
    /\ Fault
    /\ admin' = [admin EXCEPT ![a] = NoAdmin]
    /\ UNCHANGED <<inv, late, member, userVars, sess>>

(* InviteUserByEmail, after its one retry: the mail leaves, or the call    *)
(* fails (also for an address that already has an account).                *)
InviteMail(a) ==
    /\ admin[a].pc = "mail"
    /\ admin' = [admin EXCEPT ![a] = NoAdmin]
    /\ UNCHANGED <<inv, late, member, userVars, sess, faults>>

InviteMailFails(a) ==
    /\ admin[a].pc = "mail"
    /\ admin' = [admin EXCEPT ![a].pc = "rollback"]
    /\ UNCHANGED <<inv, late, member, userVars, sess, faults>>

(* The compensation, which may fail itself.                                *)
InviteRollback(a) ==
    /\ admin[a].pc = "rollback"
    /\ UpdateStatus(admin[a].cur, "revoked")
    /\ admin' = [admin EXCEPT ![a] = NoAdmin]
    /\ UNCHANGED <<late, member, userVars, sess, faults>>

InviteRollbackFails(a) ==
    /\ admin[a].pc = "rollback"
    /\ Fault
    /\ admin' = [admin EXCEPT ![a] = NoAdmin]
    /\ UNCHANGED <<inv, late, member, userVars, sess>>

(* RevokeInvitation: the row exists, nothing else is asked of it.          *)
RevokeInvitation(i) ==
    /\ inv[i] # "none"
    /\ UpdateStatus(i, "revoked")
    /\ UNCHANGED <<late, member, userVars, sess, admin, faults>>

(* expires_at passes.                                                      *)
PassExpiry(i) ==
    /\ inv[i] # "none" /\ i \notin late
    /\ late' = late \cup {i}
    /\ UNCHANGED <<inv, member, userVars, sess, admin, faults>>

(* Revoke of user_roles: an administrator removes the member.              *)
RemoveMember(t) ==
    /\ member[t] = "active"
    /\ member' = [member EXCEPT ![t] = "revoked"]
    /\ UNCHANGED <<inv, late, userVars, sess, admin, faults>>

(* ClearPasswordChangeRequired: the person set a password.  The route asks *)
(* for neither a tenant nor a status.                                      *)
ClearPasswordChangeRequired ==
    /\ status # "none" /\ mustChange
    /\ mustChange' = FALSE
    /\ UNCHANGED <<inv, late, member, status, flagged, sess, admin, faults>>

(* ForcePasswordChange: an administrator of a tenant of the person asks    *)
(* for a new password; the mail that follows may fail, the flag stays.     *)
ForcePasswordChange(t) ==
    /\ member[t] = "active"
    /\ mustChange' = TRUE /\ flagged' = TRUE
    /\ UNCHANGED <<inv, late, member, status, sess, admin, faults>>

-----------------------------------------------------------------------------
(* A request of the person: JWTAuth.                                       *)

(* Mutant: only the request that creates the user activates.               *)
ProvisionUserOnce(s) ==
    /\ sess[s].pc = "idle"
    /\ status' = IF status = "none" THEN "invited" ELSE status
    /\ sess' = IF status = "none" THEN [sess EXCEPT ![s].pc = "list"] ELSE sess
    /\ UNCHANGED <<inv, late, member, mustChange, flagged, admin, faults>>

(* ProvisionUser: the upsert answers the status; the activation runs while *)
(* that is 'invited'.                                                      *)
ProvisionUser(s) ==
    /\ sess[s].pc = "idle"
    /\ status' = IF status = "none" THEN "invited" ELSE status
    /\ sess' = IF status \in {"none", "invited"}
               THEN [sess EXCEPT ![s].pc = "list"] ELSE sess
    /\ UNCHANGED <<inv, late, member, mustChange, flagged, admin, faults>>

(* Mutant: the query does not ask for the status.                          *)
ListPendingAnyStatus(s) ==
    LET found == {i \in Invs : inv[i] # "none"}
    IN  /\ sess[s].pc = "list"
        /\ sess' = [sess EXCEPT ![s] = IF found = {} THEN NoSession
                                       ELSE [NoSession EXCEPT !.pc = "loop", !.todo = found]]
        /\ UNCHANGED <<inv, late, member, userVars, admin, faults>>

(* ListPendingByEmail; with nothing pending the activation is over.        *)
ListPending(s) ==
    /\ sess[s].pc = "list"
    /\ sess' = [sess EXCEPT ![s] = IF Pending = {} THEN NoSession
                                   ELSE [NoSession EXCEPT !.pc = "loop", !.todo = Pending]]
    /\ UNCHANGED <<inv, late, member, userVars, admin, faults>>

(* An iteration on an invitation past its date.                            *)
ExpireOne(s, i) ==
    /\ sess[s].pc = "loop"
    /\ i \in sess[s].todo \cap late
    /\ \/ UpdateStatus(i, "expired") /\ UNCHANGED faults
       \/ Fault /\ UNCHANGED inv
    /\ sess' = [sess EXCEPT ![s].todo = sess[s].todo \ {i}]
    /\ UNCHANGED <<late, member, userVars, admin>>

(* The membership is created, or the person already is an active member.   *)
CreateMembership(s, i) ==
    /\ sess[s].pc = "loop"
    /\ i \in sess[s].todo \ late
    /\ member' = [member EXCEPT ![InvTenant[i]] = "active"]
    /\ sess' = [sess EXCEPT ![s].pc = "accept", ![s].cur = i,
                            ![s].todo = sess[s].todo \ {i}]
    /\ UNCHANGED <<inv, late, userVars, admin, faults>>

(* Mutant: the invitation is accepted all the same.                        *)
CreateMembershipFailsAccepts(s, i) ==
    /\ sess[s].pc = "loop"
    /\ i \in sess[s].todo \ late
    /\ Fault
    /\ sess' = [sess EXCEPT ![s].pc = "accept", ![s].cur = i,
                            ![s].todo = sess[s].todo \ {i}]
    /\ UNCHANGED <<inv, late, member, userVars, admin>>

(* Any other error: a warning, and on to the next invitation.              *)
CreateMembershipFails(s, i) ==
    /\ sess[s].pc = "loop"
    /\ i \in sess[s].todo \ late
    /\ Fault
    /\ sess' = [sess EXCEPT ![s].todo = sess[s].todo \ {i}]
    /\ UNCHANGED <<inv, late, member, userVars, admin>>

(* The invitation is marked accepted; a failure to do so is only logged.   *)
Accept(s) ==
    /\ sess[s].pc = "accept"
    /\ \/ UpdateStatus(sess[s].cur, "accepted") /\ UNCHANGED faults
       \/ Fault /\ UNCHANGED inv
    /\ sess' = [sess EXCEPT ![s].pc = "loop", ![s].cur = NoInv, ![s].activated = TRUE]
    /\ UNCHANGED <<late, member, userVars, admin>>

(* Mutant: the status is flipped before the flag.                          *)
LoopEndsStatusFirst(s) ==
    /\ sess[s].pc = "loop"
    /\ sess[s].todo = {}
    /\ sess' = [sess EXCEPT ![s] = IF sess[s].activated
                                   THEN [NoSession EXCEPT !.pc = "activate"] ELSE NoSession]
    /\ UNCHANGED <<inv, late, member, userVars, admin, faults>>

(* End of the loop; without an activation the user stays 'invited'.        *)
LoopEnds(s) ==
    /\ sess[s].pc = "loop"
    /\ sess[s].todo = {}
    /\ sess' = [sess EXCEPT ![s] = IF sess[s].activated
                                   THEN [NoSession EXCEPT !.pc = "flag"] ELSE NoSession]
    /\ UNCHANGED <<inv, late, member, userVars, admin, faults>>

(* SetPasswordChangeRequired, then SetStatus.                              *)
SetPasswordChangeRequired(s) ==
    /\ sess[s].pc = "flag"
    /\ mustChange' = TRUE /\ flagged' = TRUE
    /\ sess' = [sess EXCEPT ![s].pc = "activate"]
    /\ UNCHANGED <<inv, late, member, status, admin, faults>>

SetStatus(s) ==
    /\ sess[s].pc = "activate"
    /\ status' = "active"
    /\ sess' = [sess EXCEPT ![s] = NoSession]
    /\ UNCHANGED <<inv, late, member, mustChange, flagged, admin, faults>>

(* ListPendingByEmail or one of the two writes fails: the request answers  *)
(* 500 and what it did before stays done.                                  *)
ActivationFails(s) ==
    /\ sess[s].pc \in {"list", "flag", "activate"}
    /\ Fault
    /\ sess' = [sess EXCEPT ![s] = NoSession]
    /\ UNCHANGED <<inv, late, member, userVars, admin>>

-----------------------------------------------------------------------------
Activation(s) ==
    \/ ListPending(s) \/ Accept(s) \/ LoopEnds(s)
    \/ SetPasswordChangeRequired(s) \/ SetStatus(s) \/ ActivationFails(s)
    \/ \E i \in Invs : \/ ExpireOne(s, i) \/ CreateMembership(s, i)
                       \/ CreateMembershipFails(s, i)

CreateInvitation(a) ==
    \/ InviteInsert(a) \/ InviteInsertFails(a) \/ InviteMail(a) \/ InviteMailFails(a)
    \/ InviteRollback(a) \/ InviteRollbackFails(a)

Next ==
    \/ \E a \in Admins, i \in Invs : InviteCheck(a, i)
    \/ \E a \in Admins : CreateInvitation(a)
    \/ \E i \in Invs : RevokeInvitation(i) \/ PassExpiry(i)
    \/ \E t \in Tenants : RemoveMember(t) \/ ForcePasswordChange(t)
    \/ ClearPasswordChangeRequired
    \/ \E s \in Sessions : ProvisionUser(s) \/ Activation(s)

Spec == Init /\ [][Next]_vars

(* The person keeps sending requests and each request runs to its end; the *)
(* administrators owe nothing.                                             *)
FairSpec ==
    /\ Spec
    /\ \A s \in Sessions : WF_vars(ProvisionUser(s) \/ Activation(s))

-----------------------------------------------------------------------------
(* Properties.                                                             *)

InvStatus   == {"none", "pending", "accepted", "revoked", "expired"}
SessionType == [pc : {"idle", "list", "loop", "accept", "flag", "activate"},
                todo : SUBSET Invs, cur : Invs \cup {NoInv}, activated : BOOLEAN]
AdminType   == [pc : {"idle", "insert", "mail", "rollback"}, cur : Invs \cup {NoInv}]

(* Every variable keeps its shape; what a request works on are rows that   *)
(* exist.                                                                  *)
TypeOK ==
    /\ inv \in [Invs -> InvStatus]
    /\ late \subseteq {i \in Invs : inv[i] # "none"}
    /\ member \in [Tenants -> {"none", "active", "revoked"}]
    /\ status \in {"none", "invited", "active"}
    /\ mustChange \in BOOLEAN /\ flagged \in BOOLEAN
    /\ sess \in [Sessions -> SessionType]
    /\ \A s \in Sessions : /\ \A i \in sess[s].todo : inv[i] # "none"
                           /\ sess[s].pc = "accept" => sess[s].cur \in Invs
                           /\ sess[s].cur \in Invs => inv[sess[s].cur] # "none"
    /\ admin \in [Admins -> AdminType]
    /\ \A a \in Admins : admin[a].pc # "idle" => admin[a].cur \in Invs
    /\ faults \in 0..MaxFaults

(* An accepted invitation has made its member, in every order of           *)
(* overlapping activations, failures and removals.                         *)
AcceptedIsMember == \A i \in Invs : inv[i] = "accepted" => member[InvTenant[i]] # "none"

(* The order of the last two writes: nobody becomes active without having  *)
(* been told to set a password; and who is told so is, or was, a member of *)
(* some tenant.                                                            *)
ActiveWasFlagged ==
    /\ status = "active" => flagged
    /\ flagged => \E t \in Tenants : member[t] # "none"

(* A revocation that no activation has overtaken: the invitation is        *)
(* revoked and in the list of no request in progress.                      *)
Withdrawn(i) ==
    /\ inv[i] = "revoked"
    /\ \A s \in Sessions : i \notin sess[s].todo /\ i # sess[s].cur

(* UpdateStatus overwrites any status, so that a request that listed the   *)
(* invitation before RevokeInvitation still accepts it; a revocation that  *)
(* finds no such request is final: no request of the person, no expiry and *)
(* no invitation in progress ever takes that invitation up again.          *)
RevocationFinal == [][\A i \in Invs : Withdrawn(i) => Withdrawn(i)']_vars

(* While the user is not active, an invitation that could not be settled   *)
(* (a failed membership, a failed UPDATE) is tried again by every request: *)
(* it leaves 'pending' in the end, or the user becomes active.             *)
PendingDrains ==
    \A i \in Invs : inv[i] = "pending" ~> (inv[i] # "pending" \/ status = "active")

(* What the comment of ActivatePendingInvitations says of a failed write   *)
(* of the flag: the user stays 'invited', so that the next request retries *)
(* the activation.  So the person whose invitation stays accepted and who  *)
(* stays a member becomes active in the end.  It does not hold: the next   *)
(* request finds nothing pending and returns before the two writes.        *)
ActivationRetried ==
    \A i \in Invs :
        <>[](inv[i] = "accepted" /\ member[InvTenant[i]] = "active") => <>(status = "active")
=============================================================================
