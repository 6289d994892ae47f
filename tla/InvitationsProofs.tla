------------------------- MODULE InvitationsProofs --------------------------
(***************************************************************************)
(* Proofs about Invitations, for any tenants, invitations, requests and    *)
(* administrators at work, and any number of failed writes.                *)
(***************************************************************************)
EXTENDS Invitations, TLAPS

Joined(t) == member[t] # "none"
SomeTenant == \E t \in Tenants : Joined(t)

(* What a request has done before each of its writes.                      *)
Progress == \A s \in Sessions :
    /\ sess[s].pc = "accept" => Joined(InvTenant[sess[s].cur])
    /\ sess[s].activated \/ sess[s].pc \in {"accept", "flag", "activate"} => SomeTenant
    /\ sess[s].pc = "activate" => flagged

(* A compensation is of an invitation that exists.                         *)
AdminsKnow == \A a \in Admins :
    admin[a].pc \in {"mail", "rollback"} => inv[admin[a].cur] # "none"

IInv == TypeOK /\ Progress /\ AdminsKnow /\ AcceptedIsMember /\ ActiveWasFlagged

(* The free slots have their types.                                        *)
LEMMA SlotsTyped ==
    /\ NoSession \in SessionType /\ NoSession.pc = "idle" /\ NoSession.todo = {}
    /\ NoSession.cur = NoInv /\ NoSession.activated = FALSE
    /\ NoAdmin \in AdminType /\ NoAdmin.pc = "idle" /\ NoAdmin.cur = NoInv
BY DEF NoSession, SessionType, NoAdmin, AdminType

(* Nobody is invited.                                                      *)
LEMMA InitInv == Init => IInv
<1>. SUFFICES ASSUME Init PROVE IInv
  OBVIOUS
<1>1. TypeOK
  <2>1. sess \in [Sessions -> SessionType] /\ admin \in [Admins -> AdminType]
    BY SlotsTyped DEF Init
  <2>2. \A s \in Sessions : /\ \A i \in sess[s].todo : inv[i] # "none"
                            /\ sess[s].pc = "accept" => sess[s].cur \in Invs
                            /\ sess[s].cur \in Invs => inv[sess[s].cur] # "none"
    BY SlotsTyped, InvitationsAssumption DEF Init
  <2>3. \A a \in Admins : admin[a].pc # "idle" => admin[a].cur \in Invs
    BY SlotsTyped DEF Init
  <2>4. /\ inv \in [Invs -> InvStatus] /\ late \subseteq {i \in Invs : inv[i] # "none"}
        /\ member \in [Tenants -> {"none", "active", "revoked"}]
        /\ status \in {"none", "invited", "active"} /\ faults \in 0..MaxFaults
    BY InvitationsAssumption DEF Init, InvStatus
  <2>5. mustChange \in BOOLEAN /\ flagged \in BOOLEAN
    BY DEF Init
  <2>. QED  BY <2>1, <2>2, <2>3, <2>4, <2>5 DEF TypeOK
<1>2. Progress /\ AdminsKnow
  BY SlotsTyped DEF Init, Progress, AdminsKnow
<1>3. AcceptedIsMember /\ ActiveWasFlagged
  BY DEF Init, AcceptedIsMember, ActiveWasFlagged
<1>. QED  BY <1>1, <1>2, <1>3 DEF IInv

(* The tables as every other actor sees them change: invitations are never *)
(* forgotten, an acceptance follows its membership, a member leaves a      *)
(* trace, and the user's row keeps its promises.                           *)
Tables ==
    /\ inv' \in [Invs -> InvStatus] /\ member' \in [Tenants -> {"none", "active", "revoked"}]
    /\ \A i \in Invs : inv[i] # "none" => inv'[i] # "none"
    /\ \A i \in Invs : inv'[i] = "accepted" => inv[i] = "accepted" \/ Joined(InvTenant[i])'
    /\ \A t \in Tenants : Joined(t) => Joined(t)'
    /\ late' \subseteq {i \in Invs : inv'[i] # "none"}
    /\ status' \in {"none", "invited", "active"}
    /\ mustChange' \in BOOLEAN /\ flagged' \in BOOLEAN
    /\ flagged => flagged'
    /\ flagged' => flagged \/ SomeTenant'
    /\ status' = "active" => status = "active" \/ flagged'
    /\ faults' \in 0..MaxFaults

(* Steps of the tables alone, or with one slot moved.                      *)
LEMMA TablesFrame ==
    ASSUME IInv, Tables
    PROVE  /\ AcceptedIsMember' /\ ActiveWasFlagged'
           /\ SomeTenant => SomeTenant'
<1>1. InvTenant \in [Invs -> Tenants]
  BY InvitationsAssumption
<1>2. SomeTenant => SomeTenant'
  BY DEF Tables, SomeTenant
<1>3. AcceptedIsMember'
  BY <1>1 DEF IInv, AcceptedIsMember, Tables, Joined
<1>4. ActiveWasFlagged'
  BY <1>2 DEF IInv, ActiveWasFlagged, Tables, SomeTenant, Joined
<1>. QED  BY <1>2, <1>3, <1>4

(* What a request works on exists, and goes on existing.                   *)
SessionKnows(q) ==
    /\ \A i \in q.todo : inv[i] # "none"
    /\ q.pc = "accept" => q.cur \in Invs
    /\ q.cur \in Invs => inv[q.cur] # "none"

(* The invitations in the hands of a request stay known.                   *)
LEMMA KnownStay ==
    ASSUME IInv, Tables, NEW s \in Sessions
    PROVE  /\ \A i \in sess[s].todo : inv'[i] # "none"
           /\ sess[s].pc = "accept" => sess[s].cur \in Invs
           /\ sess[s].cur \in Invs => inv'[sess[s].cur] # "none"
<1>1. sess[s].todo \subseteq Invs
  BY DEF IInv, TypeOK, SessionType
<1>2. \A i \in sess[s].todo : inv[i] # "none"
  BY DEF IInv, TypeOK
<1>3. /\ sess[s].pc = "accept" => sess[s].cur \in Invs
      /\ sess[s].cur \in Invs => inv[sess[s].cur] # "none"
  BY DEF IInv, TypeOK
<1>. QED  BY <1>1, <1>2, <1>3 DEF Tables

(* A step that moves no slot.                                              *)
LEMMA StillFrame ==
    ASSUME IInv, Tables, UNCHANGED <<sess, admin>>
    PROVE  IInv'
<1>1. TypeOK'
  BY KnownStay DEF IInv, TypeOK, Tables
<1>2. Progress'
  <2>. SUFFICES ASSUME NEW s \in Sessions PROVE Progress!(s)'
    BY DEF Progress
  <2>1. sess[s].pc = "accept" => InvTenant[sess[s].cur] \in Tenants
    BY InvitationsAssumption DEF IInv, TypeOK
  <2>. QED  BY <2>1, TablesFrame DEF IInv, Progress, Tables
<1>3. AdminsKnow'
  BY DEF IInv, TypeOK, AdminsKnow, Tables
<1>. QED  BY <1>1, <1>2, <1>3, TablesFrame DEF IInv

(* A step of one administrator.                                            *)
LEMMA AdminFrame ==
    ASSUME IInv, Tables, NEW a \in Admins, NEW new \in AdminType,
           admin' = [admin EXCEPT ![a] = new],
           new.pc # "idle" => new.cur \in Invs,
           new.pc \in {"mail", "rollback"} => inv'[new.cur] # "none",
           UNCHANGED sess
    PROVE  IInv'
<1>0. /\ admin' \in [Admins -> AdminType] /\ admin'[a] = new
      /\ \A o \in Admins : o # a => admin'[o] = admin[o]
  BY DEF IInv, TypeOK
<1>1. TypeOK'
  BY <1>0, KnownStay DEF IInv, TypeOK, Tables
<1>2. Progress'
  <2>. SUFFICES ASSUME NEW s \in Sessions PROVE Progress!(s)'
    BY DEF Progress
  <2>1. sess[s].pc = "accept" => InvTenant[sess[s].cur] \in Tenants
    BY InvitationsAssumption DEF IInv, TypeOK
  <2>. QED  BY <2>1, TablesFrame DEF IInv, Progress, Tables
<1>3. AdminsKnow'
  BY <1>0 DEF IInv, TypeOK, AdminsKnow, Tables
<1>. QED  BY <1>1, <1>2, <1>3, TablesFrame DEF IInv

(* A step of one request.                                                  *)
LEMMA SessionFrame ==
    ASSUME IInv, Tables, NEW s \in Sessions, NEW new \in SessionType,
           sess' = [sess EXCEPT ![s] = new],
           \A i \in new.todo : inv'[i] # "none",
           new.pc = "accept" => new.cur \in Invs /\ Joined(InvTenant[new.cur])',
           new.cur \in Invs => inv'[new.cur] # "none",
           new.activated \/ new.pc \in {"accept", "flag", "activate"} => SomeTenant',
           new.pc = "activate" => flagged',
           UNCHANGED admin
    PROVE  IInv'
<1>0. /\ sess' \in [Sessions -> SessionType] /\ sess'[s] = new
      /\ \A o \in Sessions : o # s => sess'[o] = sess[o]
  BY DEF IInv, TypeOK
<1>1. TypeOK'
  <2>1. \A o \in Sessions : SessionKnows(sess[o])'
    BY <1>0, KnownStay DEF SessionKnows
  <2>. QED  BY <1>0, <2>1 DEF IInv, TypeOK, Tables, SessionKnows
<1>2. Progress'
  <2>. SUFFICES ASSUME NEW o \in Sessions PROVE Progress!(o)'
    BY DEF Progress
  <2>1. CASE o = s
    BY <1>0, <2>1
  <2>2. CASE o # s
    <3>1. sess[o].pc = "accept" => InvTenant[sess[o].cur] \in Tenants
      BY InvitationsAssumption DEF IInv, TypeOK
    <3>. QED  BY <1>0, <2>2, <3>1, TablesFrame DEF IInv, Progress, Tables
  <2>. QED  BY <2>1, <2>2
<1>3. AdminsKnow'
  BY DEF IInv, TypeOK, AdminsKnow, Tables
<1>. QED  BY <1>1, <1>2, <1>3, TablesFrame DEF IInv

-----------------------------------------------------------------------------
(* One more fault is within the bound.                                     *)
LEMMA FaultTyped ==
    ASSUME IInv, Fault \/ faults' = faults
    PROVE  faults' \in 0..MaxFaults
BY InvitationsAssumption DEF IInv, TypeOK, Fault

(* A step that leaves the tables as they are.                              *)
LEMMA TablesSame ==
    ASSUME IInv, UNCHANGED <<inv, late, member, userVars>>, Fault \/ faults' = faults
    PROVE  Tables
<1>1. Tables!1 /\ Tables!2 /\ Tables!3 /\ Tables!4 /\ Tables!5
  BY DEF IInv, TypeOK, Joined
<1>2. Tables!6 /\ Tables!7
  BY DEF IInv, TypeOK, userVars
<1>3. Tables!8 /\ Tables!9 /\ Tables!10
  BY DEF IInv, TypeOK, userVars
<1>. QED  BY <1>1, <1>2, <1>3, FaultTyped DEF Tables, userVars

(* A step that gives one invitation that exists, or is created, another    *)
(* status: accepted only behind a membership.                              *)
LEMMA TablesInvitation ==
    ASSUME IInv, NEW i \in Invs, NEW st \in InvStatus \ {"none"},
           inv' = [inv EXCEPT ![i] = st], st = "accepted" => Joined(InvTenant[i]),
           UNCHANGED <<late, member, userVars, faults>>
    PROVE  Tables
<1>1. inv' \in [Invs -> InvStatus] /\ \A j \in Invs : inv'[j] = IF j = i THEN st ELSE inv[j]
  BY DEF IInv, TypeOK
<1>2. late \subseteq Invs /\ \A j \in late : inv[j] # "none"
  BY DEF IInv, TypeOK
<1>3. /\ \A j \in Invs : inv[j] # "none" => inv'[j] # "none"
      /\ late' \subseteq {j \in Invs : inv'[j] # "none"}
  BY <1>1, <1>2
<1>4. \A j \in Invs : inv'[j] = "accepted" => inv[j] = "accepted" \/ Joined(InvTenant[j])'
  BY <1>1 DEF Joined
<1>5. /\ status' \in {"none", "invited", "active"} /\ faults' \in 0..MaxFaults
      /\ member' \in [Tenants -> {"none", "active", "revoked"}]
      /\ \A t \in Tenants : Joined(t) => Joined(t)'
  BY FaultTyped DEF IInv, TypeOK, userVars, Joined
<1>6. /\ mustChange' \in BOOLEAN /\ flagged' \in BOOLEAN /\ (flagged => flagged')
      /\ (flagged' => flagged) /\ (status' = "active" => status = "active")
  BY DEF IInv, TypeOK, userVars
<1>. QED  BY <1>1, <1>3, <1>4, <1>5, <1>6 DEF Tables

(* A step that makes somebody a member, or ends a membership.              *)
LEMMA TablesMember ==
    ASSUME IInv, NEW t \in Tenants, NEW m \in {"active", "revoked"},
           member' = [member EXCEPT ![t] = m],
           UNCHANGED <<inv, late, userVars, faults>>
    PROVE  Tables
<1>1. /\ member' \in [Tenants -> {"none", "active", "revoked"}]
      /\ \A u \in Tenants : Joined(u) => Joined(u)'
  BY DEF IInv, TypeOK, Joined
<1>2. /\ inv' \in [Invs -> InvStatus] /\ late' \subseteq {i \in Invs : inv'[i] # "none"}
      /\ status' \in {"none", "invited", "active"} /\ faults' \in 0..MaxFaults
  BY FaultTyped DEF IInv, TypeOK, userVars
<1>3. /\ mustChange' \in BOOLEAN /\ flagged' \in BOOLEAN /\ (flagged => flagged')
      /\ (flagged' => flagged) /\ (status' = "active" => status = "active")
  BY DEF IInv, TypeOK, userVars
<1>. QED  BY <1>1, <1>2, <1>3 DEF Tables

(* A step of the user's row.                                               *)
LEMMA TablesUser ==
    ASSUME IInv, UNCHANGED <<inv, late, member, faults>>,
           status' \in {"none", "invited", "active"}, mustChange' \in BOOLEAN,
           flagged' \in BOOLEAN, flagged => flagged', flagged' => flagged \/ SomeTenant,
           status' = "active" => status = "active" \/ flagged'
    PROVE  Tables
<1>1. /\ \A t \in Tenants : Joined(t) => Joined(t)'
      /\ SomeTenant => SomeTenant'
  BY DEF Joined, SomeTenant
<1>2. /\ inv' \in [Invs -> InvStatus] /\ late' \subseteq {i \in Invs : inv'[i] # "none"}
      /\ member' \in [Tenants -> {"none", "active", "revoked"}] /\ faults' \in 0..MaxFaults
  BY FaultTyped DEF IInv, TypeOK
<1>. QED  BY <1>1, <1>2 DEF Tables

-----------------------------------------------------------------------------
(* CreateInvitation, step by step.                                         *)
LEMMA AdminSteps ==
    ASSUME IInv, NEW a \in Admins,
           CreateInvitation(a) \/ \E i \in Invs : InviteCheck(a, i)
    PROVE  IInv'
<1>. DEFINE q == admin[a]
<1>0. /\ admin \in [Admins -> AdminType] /\ q \in AdminType
      /\ q.pc # "idle" => q.cur \in Invs
      /\ q.pc \in {"mail", "rollback"} => inv[q.cur] # "none"
  BY DEF IInv, TypeOK, AdminsKnow
<1>1. ASSUME NEW i \in Invs, InviteCheck(a, i) PROVE IInv'
  <2>. DEFINE new == [pc |-> "insert", cur |-> i]
  <2>1. new \in AdminType /\ new.pc = "insert" /\ new.cur = i
    BY DEF AdminType
  <2>2. admin' = [admin EXCEPT ![a] = new] /\ UNCHANGED sess /\ Tables
    BY <1>1, TablesSame DEF InviteCheck
  <2>. HIDE DEF new
  <2>. QED  BY <2>1, <2>2, AdminFrame
<1>2. CASE InviteInsert(a)
  <2>. DEFINE clash == \E j \in Pending : InvTenant[j] = InvTenant[q.cur]
  <2>0. q.pc = "insert" /\ q.cur \in Invs /\ UNCHANGED <<late, member, userVars, sess, faults>>
    BY <1>0, <1>2 DEF InviteInsert
  <2>1. CASE clash
    <3>1. inv' = inv /\ admin' = [admin EXCEPT ![a] = NoAdmin]
      BY <1>2, <2>1 DEF InviteInsert
    <3>. QED  BY <2>0, <3>1, TablesSame, SlotsTyped, AdminFrame
  <2>2. CASE ~clash
    <3>. DEFINE new == [pc |-> "mail", cur |-> q.cur]
    <3>1. inv' = [inv EXCEPT ![q.cur] = "pending"] /\ admin' = [admin EXCEPT ![a] = new]
      BY <1>2, <2>2 DEF InviteInsert
    <3>2. new \in AdminType /\ new.pc = "mail" /\ new.cur = q.cur
      BY <2>0 DEF AdminType
    <3>3. Tables
      BY <2>0, <3>1, TablesInvitation DEF InvStatus
    <3>4. inv'[q.cur] # "none"
      BY <2>0, <3>1 DEF IInv, TypeOK
    <3>. HIDE DEF new, q
    <3>. QED  BY <2>0, <3>1, <3>2, <3>3, <3>4, AdminFrame
  <2>. QED  BY <2>1, <2>2
<1>3. CASE InviteInsertFails(a) \/ InviteMail(a) \/ InviteRollbackFails(a)
  <2>1. admin' = [admin EXCEPT ![a] = NoAdmin] /\ UNCHANGED sess /\ Tables
    BY <1>3, TablesSame DEF InviteInsertFails, InviteMail, InviteRollbackFails
  <2>. QED  BY <2>1, SlotsTyped, AdminFrame
<1>4. CASE InviteMailFails(a)
  <2>. DEFINE new == [q EXCEPT !.pc = "rollback"]
  <2>1. new \in AdminType /\ new.pc = "rollback" /\ new.cur = q.cur
    BY <1>0 DEF AdminType
  <2>2. /\ admin' = [admin EXCEPT ![a] = new] /\ UNCHANGED <<inv, sess>> /\ Tables
        /\ q.cur \in Invs /\ inv[q.cur] # "none"
    BY <1>0, <1>4, TablesSame DEF InviteMailFails
  <2>. HIDE DEF new, q
  <2>. QED  BY <2>1, <2>2, AdminFrame
<1>5. CASE InviteRollback(a)
  <2>1. /\ admin' = [admin EXCEPT ![a] = NoAdmin] /\ UNCHANGED sess /\ q.cur \in Invs
        /\ inv' = [inv EXCEPT ![q.cur] = "revoked"]
        /\ UNCHANGED <<late, member, userVars, faults>>
    BY <1>0, <1>5 DEF InviteRollback, UpdateStatus
  <2>2. Tables
    BY <2>1, TablesInvitation DEF InvStatus
  <2>. QED  BY <2>1, <2>2, SlotsTyped, AdminFrame
<1>. QED  BY <1>1, <1>2, <1>3, <1>4, <1>5 DEF CreateInvitation

(* What happens beside the requests.                                       *)
LEMMA OutsideSteps ==
    ASSUME IInv,
           \/ \E i \in Invs : RevokeInvitation(i) \/ PassExpiry(i)
           \/ \E t \in Tenants : RemoveMember(t) \/ ForcePasswordChange(t)
           \/ ClearPasswordChangeRequired
    PROVE  IInv'
<1>1. ASSUME NEW i \in Invs, RevokeInvitation(i) PROVE IInv'
  <2>1. Tables
    BY <1>1, TablesInvitation DEF RevokeInvitation, UpdateStatus, InvStatus
  <2>. QED  BY <1>1, <2>1, StillFrame DEF RevokeInvitation
<1>2. ASSUME NEW i \in Invs, PassExpiry(i) PROVE IInv'
  <2>1. /\ UNCHANGED <<inv, member, userVars, sess, admin, faults>>
        /\ late' \subseteq {j \in Invs : inv'[j] # "none"}
    BY <1>2 DEF PassExpiry, IInv, TypeOK
  <2>2. Tables
    <3>1. /\ inv' \in [Invs -> InvStatus] /\ status' \in {"none", "invited", "active"}
          /\ member' \in [Tenants -> {"none", "active", "revoked"}]
          /\ faults' \in 0..MaxFaults /\ \A t \in Tenants : Joined(t) => Joined(t)'
      BY <2>1, FaultTyped DEF IInv, TypeOK, userVars, Joined
    <3>2. /\ mustChange' \in BOOLEAN /\ flagged' \in BOOLEAN /\ (flagged => flagged')
          /\ (flagged' => flagged) /\ (status' = "active" => status = "active")
      BY <2>1 DEF IInv, TypeOK, userVars
    <3>. QED  BY <2>1, <3>1, <3>2 DEF Tables
  <2>. QED  BY <2>1, <2>2, StillFrame
<1>3. ASSUME NEW t \in Tenants, RemoveMember(t) PROVE IInv'
  <2>1. Tables
    BY <1>3, TablesMember DEF RemoveMember
  <2>. QED  BY <1>3, <2>1, StillFrame DEF RemoveMember
<1>4. ASSUME NEW t \in Tenants, ForcePasswordChange(t) PROVE IInv'
  <2>1. SomeTenant
    BY <1>4 DEF ForcePasswordChange, SomeTenant, Joined
  <2>2. status \in {"none", "invited", "active"}
    BY DEF IInv, TypeOK
  <2>3. Tables
    BY <1>4, <2>1, <2>2, TablesUser DEF ForcePasswordChange
  <2>. QED  BY <1>4, <2>3, StillFrame DEF ForcePasswordChange
<1>5. CASE ClearPasswordChangeRequired
  <2>1. status \in {"none", "invited", "active"} /\ flagged \in BOOLEAN
    BY DEF IInv, TypeOK
  <2>2. Tables
    BY <1>5, <2>1, TablesUser DEF ClearPasswordChangeRequired
  <2>. QED  BY <1>5, <2>2, StillFrame DEF ClearPasswordChangeRequired
<1>. QED  BY <1>1, <1>2, <1>3, <1>4, <1>5

-----------------------------------------------------------------------------
(* A step that sends a request to another place of the code, tables alike. *)
LEMMA SessionMove ==
    ASSUME IInv, NEW s \in Sessions, NEW new \in SessionType,
           sess' = [sess EXCEPT ![s] = new], new.cur = NoInv,
           new.pc \notin {"accept", "activate"}, new.todo \subseteq sess[s].todo,
           new.activated \/ new.pc = "flag" => SomeTenant,
           UNCHANGED <<inv, late, member, userVars, admin>>, Fault \/ faults' = faults
    PROVE  IInv'
<1>1. Tables
  BY TablesSame
<1>2. \A i \in new.todo : inv'[i] # "none"
  BY DEF IInv, TypeOK
<1>3. new.cur \notin Invs
  BY InvitationsAssumption
<1>4. new.activated \/ new.pc \in {"accept", "flag", "activate"} => SomeTenant'
  BY <1>1, TablesFrame
<1>. QED  BY <1>1, <1>2, <1>3, <1>4, SessionFrame

(* ActivatePendingInvitations and the request around it, step by step.     *)
LEMMA SessionSteps ==
    ASSUME IInv, NEW s \in Sessions, ProvisionUser(s) \/ Activation(s)
    PROVE  IInv'
<1>. DEFINE q == sess[s]
<1>0. /\ sess \in [Sessions -> SessionType] /\ q \in SessionType /\ q.todo \subseteq Invs
      /\ \A i \in q.todo : inv[i] # "none"
      /\ q.pc = "accept" => q.cur \in Invs /\ Joined(InvTenant[q.cur])
      /\ q.activated \/ q.pc \in {"accept", "flag", "activate"} => SomeTenant
      /\ q.pc = "activate" => flagged
      /\ status \in {"none", "invited", "active"} /\ NoInv \notin Invs
      /\ InvTenant \in [Invs -> Tenants]
  BY InvitationsAssumption DEF IInv, TypeOK, Progress, SessionType
<1>b. mustChange \in BOOLEAN /\ flagged \in BOOLEAN /\ q.activated \in BOOLEAN
  BY DEF IInv, TypeOK, SessionType
<1>1. CASE ProvisionUser(s)
  <2>1. Tables
    <3>1. /\ status' \in {"none", "invited", "active"}
          /\ status' = "active" => status = "active"
      BY <1>0, <1>1 DEF ProvisionUser
    <3>. QED  BY <1>b, <1>1, <3>1, TablesUser DEF ProvisionUser
  <2>2. CASE sess' = sess
    BY <1>1, <2>1, <2>2, StillFrame DEF ProvisionUser
  <2>3. CASE sess' = [sess EXCEPT ![s].pc = "list"]
    <3>. DEFINE new == [q EXCEPT !.pc = "list"]
    <3>1. /\ new \in SessionType /\ new.pc = "list" /\ new.todo = q.todo /\ new.cur = q.cur
          /\ new.activated = q.activated
      BY <1>0 DEF SessionType
    <3>2. sess' = [sess EXCEPT ![s] = new] /\ UNCHANGED <<inv, admin>>
      BY <1>0, <1>1, <2>3 DEF ProvisionUser
    <3>3. q.cur \in Invs => inv[q.cur] # "none"
      BY DEF IInv, TypeOK
    <3>4. SomeTenant => SomeTenant'
      BY <2>1, TablesFrame
    <3>. HIDE DEF new, q
    <3>. QED  BY <1>0, <2>1, <3>1, <3>2, <3>3, <3>4, SessionFrame
  <2>. QED  BY <1>1, <2>2, <2>3 DEF ProvisionUser
<1>2. CASE ListPending(s)
  <2>1. CASE Pending = {}
    BY <1>2, <2>1, SlotsTyped, SessionMove DEF ListPending
  <2>2. CASE Pending # {}
    <3>. DEFINE new == [NoSession EXCEPT !.pc = "loop", !.todo = Pending]
    <3>1. /\ new \in SessionType /\ new.pc = "loop" /\ new.todo = Pending
          /\ new.cur = NoInv /\ new.activated = FALSE
      BY SlotsTyped DEF SessionType, Pending
    <3>2. sess' = [sess EXCEPT ![s] = new] /\ UNCHANGED <<inv, admin>> /\ Tables
      BY <1>2, <2>2, TablesSame DEF ListPending
    <3>3. \A i \in Pending : inv[i] # "none"
      BY DEF Pending
    <3>. HIDE DEF new
    <3>. QED  BY <1>0, <3>1, <3>2, <3>3, SessionFrame
  <2>. QED  BY <2>1, <2>2
<1>3. ASSUME NEW i \in Invs, ExpireOne(s, i) PROVE IInv'
  <2>. DEFINE new == [q EXCEPT !.todo = q.todo \ {i}]
  <2>1. /\ new \in SessionType /\ new.pc = "loop" /\ new.todo \subseteq q.todo
        /\ new.cur = q.cur /\ new.activated = q.activated
    BY <1>0, <1>3 DEF SessionType, ExpireOne
  <2>2. sess' = [sess EXCEPT ![s] = new] /\ UNCHANGED admin
    BY <1>0, <1>3 DEF ExpireOne
  <2>3. Tables
    <3>1. CASE UpdateStatus(i, "expired") /\ UNCHANGED faults
      BY <1>3, <3>1, TablesInvitation DEF ExpireOne, UpdateStatus, InvStatus
    <3>2. CASE Fault /\ UNCHANGED inv
      BY <1>3, <3>2, TablesSame DEF ExpireOne
    <3>. QED  BY <1>3, <3>1, <3>2 DEF ExpireOne
  <2>4. \A j \in new.todo : inv'[j] # "none"
    BY <1>0, <2>1, <2>3 DEF Tables
  <2>5. q.cur \in Invs => inv'[q.cur] # "none"
    BY <2>3 DEF IInv, TypeOK, Tables
  <2>6. SomeTenant => SomeTenant'
    BY <2>3, TablesFrame
  <2>. HIDE DEF new, q
  <2>. QED  BY <1>0, <2>1, <2>2, <2>3, <2>4, <2>5, <2>6, SessionFrame
<1>4. ASSUME NEW i \in Invs, CreateMembership(s, i) PROVE IInv'
  <2>. DEFINE new == [q EXCEPT !.pc = "accept", !.cur = i, !.todo = q.todo \ {i}]
  <2>1. /\ new \in SessionType /\ new.pc = "accept" /\ new.todo \subseteq q.todo
        /\ new.cur = i
    BY <1>0 DEF SessionType
  <2>2. /\ sess' = [sess EXCEPT ![s] = new] /\ UNCHANGED <<inv, admin>>
        /\ member' = [member EXCEPT ![InvTenant[i]] = "active"] /\ inv[i] # "none"
    BY <1>0, <1>4 DEF CreateMembership
  <2>3. Tables
    BY <1>0, <1>4, TablesMember DEF CreateMembership
  <2>4. Joined(InvTenant[i])' /\ SomeTenant'
    BY <1>0, <2>2 DEF Joined, SomeTenant, IInv, TypeOK
  <2>. HIDE DEF new, q
  <2>. QED  BY <1>0, <2>1, <2>2, <2>3, <2>4, SessionFrame
<1>5. ASSUME NEW i \in Invs, CreateMembershipFails(s, i) PROVE IInv'
  <2>. DEFINE new == [q EXCEPT !.todo = q.todo \ {i}]
  <2>1. /\ new \in SessionType /\ new.pc = "loop" /\ new.todo \subseteq q.todo
        /\ new.cur = q.cur /\ new.activated = q.activated
    BY <1>0, <1>5 DEF SessionType, CreateMembershipFails
  <2>2. sess' = [sess EXCEPT ![s] = new] /\ UNCHANGED <<inv, admin>> /\ Tables
    BY <1>0, <1>5, TablesSame DEF CreateMembershipFails
  <2>3. q.cur \in Invs => inv[q.cur] # "none"
    BY DEF IInv, TypeOK
  <2>4. SomeTenant => SomeTenant'
    BY <2>2, TablesFrame
  <2>. HIDE DEF new, q
  <2>. QED  BY <1>0, <2>1, <2>2, <2>3, <2>4, SessionFrame
<1>6. CASE Accept(s)
  <2>. DEFINE new == [q EXCEPT !.pc = "loop", !.cur = NoInv, !.activated = TRUE]
  <2>1. /\ new \in SessionType /\ new.pc = "loop" /\ new.todo = q.todo /\ new.cur = NoInv
    BY <1>0 DEF SessionType
  <2>2. sess' = [sess EXCEPT ![s] = new] /\ UNCHANGED admin /\ q.pc = "accept"
    BY <1>0, <1>6 DEF Accept
  <2>3. Tables
    <3>1. CASE UpdateStatus(q.cur, "accepted") /\ UNCHANGED faults
      BY <1>0, <1>6, <3>1, TablesInvitation DEF Accept, UpdateStatus, InvStatus
    <3>2. CASE Fault /\ UNCHANGED inv
      BY <1>6, <3>2, TablesSame DEF Accept
    <3>. QED  BY <1>6, <3>1, <3>2 DEF Accept
  <2>4. (\A j \in q.todo : inv'[j] # "none") /\ SomeTenant'
    BY <1>0, <2>2, <2>3, TablesFrame DEF Tables
  <2>. HIDE DEF new, q
  <2>. QED  BY <1>0, <2>1, <2>2, <2>3, <2>4, SessionFrame
<1>7. CASE LoopEnds(s)
  <2>. DEFINE flag == [NoSession EXCEPT !.pc = "flag"]
  <2>1. /\ flag \in SessionType /\ flag.pc = "flag" /\ flag.todo = {} /\ flag.cur = NoInv
        /\ flag.activated = FALSE
    BY SlotsTyped DEF SessionType
  <2>2. CASE q.activated
    <3>1. sess' = [sess EXCEPT ![s] = flag] /\ SomeTenant
      BY <1>0, <1>7, <2>2 DEF LoopEnds
    <3>. HIDE DEF flag
    <3>. QED  BY <1>7, <2>1, <3>1, SessionMove DEF LoopEnds
  <2>3. CASE ~q.activated
    <3>1. sess' = [sess EXCEPT ![s] = NoSession]
      BY <1>7, <2>3 DEF LoopEnds
    <3>. QED  BY <1>7, <3>1, SlotsTyped, SessionMove DEF LoopEnds
  <2>. QED  BY <2>2, <2>3
<1>8. CASE SetPasswordChangeRequired(s)
  <2>. DEFINE new == [q EXCEPT !.pc = "activate"]
  <2>1. /\ new \in SessionType /\ new.pc = "activate" /\ new.todo = q.todo /\ new.cur = q.cur
    BY <1>0 DEF SessionType
  <2>2. /\ sess' = [sess EXCEPT ![s] = new] /\ UNCHANGED <<inv, admin>> /\ SomeTenant
        /\ flagged'
    BY <1>0, <1>8 DEF SetPasswordChangeRequired
  <2>3. Tables
    BY <1>0, <1>8, <2>2, TablesUser DEF SetPasswordChangeRequired
  <2>4. q.cur \in Invs => inv[q.cur] # "none"
    BY DEF IInv, TypeOK
  <2>5. SomeTenant'
    BY <2>2, <2>3, TablesFrame
  <2>. HIDE DEF new, q
  <2>. QED  BY <1>0, <2>1, <2>2, <2>3, <2>4, <2>5, SessionFrame
<1>9. CASE SetStatus(s)
  <2>1. sess' = [sess EXCEPT ![s] = NoSession] /\ UNCHANGED admin /\ flagged
    BY <1>0, <1>9 DEF SetStatus
  <2>2. Tables
    BY <1>b, <1>9, <2>1, TablesUser DEF SetStatus
  <2>. QED  BY <1>0, <2>1, <2>2, SlotsTyped, SessionFrame
<1>10. CASE ActivationFails(s)
  BY <1>10, SlotsTyped, SessionMove DEF ActivationFails
<1>. QED  BY <1>1, <1>2, <1>3, <1>4, <1>5, <1>6, <1>7, <1>8, <1>9, <1>10 DEF Activation

(* Every step keeps the invariant.                                         *)
LEMMA NextInv == IInv /\ [Next]_vars => IInv'
<1>. SUFFICES ASSUME IInv, [Next]_vars PROVE IInv'
  OBVIOUS
<1>1. CASE Next
  BY <1>1, AdminSteps, OutsideSteps, SessionSteps DEF Next
<1>2. CASE UNCHANGED vars
  BY <1>2, TablesSame, StillFrame DEF vars
<1>. QED  BY <1>1, <1>2

(* Type correctness of the invitations and of what works on them.          *)
THEOREM InvitationsTyped == Spec => []TypeOK
<1>1. IInv => TypeOK
  BY DEF IInv
<1>. QED  BY <1>1, InitInv, NextInv, PTL DEF Spec

(* An accepted invitation has made its member, whatever creation,          *)
(* compensation, revocation and activation overlap and whatever fails.     *)
THEOREM InvitationsMakeMembers == Spec => []AcceptedIsMember
<1>1. IInv => AcceptedIsMember
  BY DEF IInv
<1>. QED  BY <1>1, InitInv, NextInv, PTL DEF Spec

(* Nobody becomes active without having been told to set a password: the   *)
(* flag is written before the status.                                      *)
THEOREM InvitationsFlagActive == Spec => []ActiveWasFlagged
<1>1. IInv => ActiveWasFlagged
  BY DEF IInv
<1>. QED  BY <1>1, InitInv, NextInv, PTL DEF Spec

-----------------------------------------------------------------------------
(* An invitation about to be inserted has no row, and is of one call only. *)
Announced ==
    /\ \A a \in Admins : admin[a].pc = "insert" => inv[admin[a].cur] = "none"
    /\ \A a, b \in Admins : a # b /\ admin[a].cur = admin[b].cur => admin[a].cur = NoInv

(* What the requests and the other administrators leave of it: they touch  *)
(* no call in progress and make no row.                                    *)
LEMMA AnnouncedKept ==
    ASSUME IInv, Announced, admin' = admin,
           \A i \in Invs : inv[i] = "none" => inv'[i] = "none"
    PROVE  Announced'
BY DEF IInv, TypeOK, Announced

(* A call that goes on with the same invitation, or ends.                  *)
LEMMA AnnouncedMoves ==
    ASSUME IInv, Announced, NEW a \in Admins, NEW new,
           admin' = [admin EXCEPT ![a] = new], new.pc # "insert",
           new.cur \in {admin[a].cur, NoInv},
           \A i \in Invs : i # admin[a].cur /\ inv[i] = "none" => inv'[i] = "none"
    PROVE  Announced'
<1>1. admin \in [Admins -> AdminType] /\ \A b \in Admins : admin[b].pc # "idle" => admin[b].cur \in Invs
  BY DEF IInv, TypeOK
<1>2. admin'[a] = new /\ \A b \in Admins : b # a => admin'[b] = admin[b]
  BY <1>1
<1>3. ASSUME NEW b \in Admins, admin'[b].pc = "insert" PROVE inv'[admin'[b].cur] = "none"
  <2>1. b # a /\ admin'[b] = admin[b]
    BY <1>2, <1>3
  <2>2. admin[b].cur \in Invs /\ admin[b].cur # NoInv
    BY <1>1, <1>3, <2>1, InvitationsAssumption
  <2>3. admin[b].cur # admin[a].cur
    BY <2>1, <2>2 DEF Announced
  <2>. QED  BY <1>3, <2>1, <2>2, <2>3 DEF Announced
<1>4. ASSUME NEW b \in Admins, NEW c \in Admins, b # c, admin'[b].cur = admin'[c].cur
      PROVE  admin'[b].cur = NoInv
  BY <1>2, <1>4 DEF Announced
<1>. QED  BY <1>3, <1>4 DEF Announced

LEMMA AnnouncedNext ==
    ASSUME IInv, Announced, [Next]_vars
    PROVE  Announced'
<1>0. /\ inv \in [Invs -> InvStatus] /\ admin \in [Admins -> AdminType]
      /\ \A a \in Admins : admin[a].pc # "idle" => admin[a].cur \in Invs
      /\ \A s \in Sessions : /\ \A i \in sess[s].todo : inv[i] # "none"
                             /\ sess[s].pc = "accept" => /\ sess[s].cur \in Invs
                                                         /\ inv[sess[s].cur] # "none"
  BY DEF IInv, TypeOK
<1>1. ASSUME NEW a \in Admins, NEW i \in Invs, InviteCheck(a, i) PROVE Announced'
  <2>. DEFINE new == [pc |-> "insert", cur |-> i]
  <2>1. admin' = [admin EXCEPT ![a] = new] /\ inv' = inv /\ new.cur = i
    BY <1>1 DEF InviteCheck
  <2>2. inv[i] = "none" /\ \A b \in Admins : admin[b].cur # i
    BY <1>1 DEF InviteCheck
  <2>. HIDE DEF new
  <2>3. admin'[a] = new /\ \A b \in Admins : b # a => admin'[b] = admin[b]
    BY <1>0, <2>1
  <2>. QED  BY <2>1, <2>2, <2>3 DEF Announced
<1>2. ASSUME NEW a \in Admins, InviteInsert(a) PROVE Announced'
  <2>. DEFINE clash == \E j \in Pending : InvTenant[j] = InvTenant[admin[a].cur]
              kept == [pc |-> "mail", cur |-> admin[a].cur]
              new == IF clash THEN NoAdmin ELSE kept
  <2>1. new.pc # "insert" /\ new.cur \in {admin[a].cur, NoInv}
    BY SlotsTyped
  <2>2. admin' = [admin EXCEPT ![a] = new]
    BY <1>2 DEF InviteInsert
  <2>3. \A i \in Invs : i # admin[a].cur /\ inv[i] = "none" => inv'[i] = "none"
    BY <1>0, <1>2 DEF InviteInsert
  <2>. HIDE DEF new
  <2>. QED  BY <2>1, <2>2, <2>3, AnnouncedMoves
<1>3. ASSUME NEW a \in Admins, InviteInsertFails(a) \/ InviteMail(a) \/ InviteRollbackFails(a)
      PROVE  Announced'
  <2>1. admin' = [admin EXCEPT ![a] = NoAdmin] /\ inv' = inv
    BY <1>3 DEF InviteInsertFails, InviteMail, InviteRollbackFails
  <2>. QED  BY <2>1, SlotsTyped, AnnouncedMoves
<1>4. ASSUME NEW a \in Admins, InviteMailFails(a) PROVE Announced'
  <2>. DEFINE new == [admin[a] EXCEPT !.pc = "rollback"]
  <2>1. new.pc = "rollback" /\ new.cur = admin[a].cur
    BY <1>0 DEF AdminType
  <2>2. admin' = [admin EXCEPT ![a] = new] /\ inv' = inv
    BY <1>4 DEF InviteMailFails
  <2>. HIDE DEF new
  <2>. QED  BY <2>1, <2>2, AnnouncedMoves
<1>5. ASSUME NEW a \in Admins, InviteRollback(a) PROVE Announced'
  <2>1. admin' = [admin EXCEPT ![a] = NoAdmin] /\ inv' = [inv EXCEPT ![admin[a].cur] = "revoked"]
    BY <1>5 DEF InviteRollback, UpdateStatus
  <2>2. \A i \in Invs : i # admin[a].cur /\ inv[i] = "none" => inv'[i] = "none"
    BY <1>0, <2>1
  <2>. QED  BY <2>1, <2>2, SlotsTyped, AnnouncedMoves
<1>6. ASSUME NEW i \in Invs, RevokeInvitation(i) PROVE Announced'
  <2>1. admin' = admin /\ \A j \in Invs : inv[j] = "none" => inv'[j] = "none"
    BY <1>0, <1>6 DEF RevokeInvitation, UpdateStatus
  <2>. QED  BY <2>1, AnnouncedKept
<1>7. ASSUME NEW s \in Sessions, NEW i \in Invs, ExpireOne(s, i) PROVE Announced'
  <2>1. admin' = admin /\ \A j \in Invs : inv[j] = "none" => inv'[j] = "none"
    BY <1>0, <1>7 DEF ExpireOne, UpdateStatus
  <2>. QED  BY <2>1, AnnouncedKept
<1>8. ASSUME NEW s \in Sessions, Accept(s) PROVE Announced'
  <2>1. admin' = admin /\ \A j \in Invs : inv[j] = "none" => inv'[j] = "none"
    BY <1>0, <1>8 DEF Accept, UpdateStatus
  <2>. QED  BY <2>1, AnnouncedKept
<1>9. ASSUME inv' = inv, admin' = admin PROVE Announced'
  BY <1>9, AnnouncedKept
<1>10. CASE UNCHANGED vars
  BY <1>9, <1>10 DEF vars
<1>. QED
  BY <1>1, <1>2, <1>3, <1>4, <1>5, <1>6, <1>7, <1>8, <1>9, <1>10
  DEF Next, CreateInvitation, Activation, PassExpiry, RemoveMember, ForcePasswordChange,
      ClearPasswordChangeRequired, ProvisionUser, ListPending, CreateMembership,
      CreateMembershipFails, LoopEnds, SetPasswordChangeRequired, SetStatus, ActivationFails

(* A request takes up what is pending, and goes on with what it has.       *)
LEMMA WithdrawnSession ==
    ASSUME IInv, NEW i \in Invs, Withdrawn(i), NEW s \in Sessions, NEW new,
           sess' = [sess EXCEPT ![s] = new], i \notin new.todo, i # new.cur,
           inv'[i] = inv[i]
    PROVE  Withdrawn(i)'
<1>1. sess'[s] = new /\ \A o \in Sessions : o # s => sess'[o] = sess[o]
  BY DEF IInv, TypeOK
<1>. QED  BY <1>1 DEF Withdrawn

LEMMA WithdrawnNext ==
    ASSUME IInv, Announced, [Next]_vars, NEW i \in Invs, Withdrawn(i)
    PROVE  Withdrawn(i)'
<1>0. /\ inv \in [Invs -> InvStatus] /\ sess \in [Sessions -> SessionType]
      /\ inv[i] = "revoked"
      /\ \A s \in Sessions : i \notin sess[s].todo /\ i # sess[s].cur
      /\ i # NoInv
  BY InvitationsAssumption DEF IInv, TypeOK, Withdrawn
<1>1. ASSUME sess' = sess, inv'[i] = "revoked" PROVE Withdrawn(i)'
  BY <1>0, <1>1 DEF Withdrawn
<1>2. ASSUME NEW a \in Admins, CreateInvitation(a) PROVE Withdrawn(i)'
  <2>1. sess' = sess
    BY <1>2 DEF CreateInvitation, InviteInsert, InviteInsertFails, InviteMail,
                InviteMailFails, InviteRollback, InviteRollbackFails
  <2>2. inv'[i] = "revoked"
    BY <1>0, <1>2 DEF CreateInvitation, InviteInsert, InviteInsertFails, InviteMail,
                InviteMailFails, InviteRollback, InviteRollbackFails, UpdateStatus, Announced
  <2>. QED  BY <1>1, <2>1, <2>2
<1>3. ASSUME NEW j \in Invs, RevokeInvitation(j) PROVE Withdrawn(i)'
  BY <1>0, <1>1, <1>3 DEF RevokeInvitation, UpdateStatus
<1>4. ASSUME NEW s \in Sessions, ProvisionUser(s) PROVE Withdrawn(i)'
  <2>1. inv' = inv
    BY <1>4 DEF ProvisionUser
  <2>2. CASE sess' = sess
    BY <1>0, <1>1, <2>1, <2>2
  <2>3. CASE sess' = [sess EXCEPT ![s].pc = "list"]
    <3>. DEFINE new == [sess[s] EXCEPT !.pc = "list"]
    <3>1. new.todo = sess[s].todo /\ new.cur = sess[s].cur
      BY <1>0 DEF SessionType
    <3>2. sess' = [sess EXCEPT ![s] = new]
      BY <2>3
    <3>. HIDE DEF new
    <3>. QED  BY <1>0, <2>1, <3>1, <3>2, WithdrawnSession
  <2>. QED  BY <1>4, <2>2, <2>3 DEF ProvisionUser
<1>5. ASSUME NEW s \in Sessions, sess' = [sess EXCEPT ![s] = NoSession], inv' = inv
      PROVE  Withdrawn(i)'
  BY <1>0, <1>5, SlotsTyped, WithdrawnSession
<1>6. ASSUME NEW s \in Sessions, ListPending(s) PROVE Withdrawn(i)'
  <2>. DEFINE new == [NoSession EXCEPT !.pc = "loop", !.todo = Pending]
  <2>1. new.todo = Pending /\ new.cur = NoInv /\ i \notin Pending
    BY <1>0, SlotsTyped DEF NoSession, Pending
  <2>2. inv' = inv
    BY <1>6 DEF ListPending
  <2>3. CASE sess' = [sess EXCEPT ![s] = new]
    <3>. HIDE DEF new
    <3>. QED  BY <1>0, <2>1, <2>2, <2>3, WithdrawnSession
  <2>. QED  BY <1>5, <1>6, <2>2, <2>3 DEF ListPending
<1>7. ASSUME NEW s \in Sessions, NEW j \in Invs,
             ExpireOne(s, j) \/ CreateMembershipFails(s, j)
      PROVE  Withdrawn(i)'
  <2>. DEFINE new == [sess[s] EXCEPT !.todo = sess[s].todo \ {j}]
  <2>1. new.todo = sess[s].todo \ {j} /\ new.cur = sess[s].cur
    BY <1>0 DEF SessionType
  <2>2. sess' = [sess EXCEPT ![s] = new]
    BY <1>7 DEF ExpireOne, CreateMembershipFails
  <2>3. inv'[i] = inv[i]
    BY <1>0, <1>7 DEF ExpireOne, CreateMembershipFails, UpdateStatus
  <2>. HIDE DEF new
  <2>. QED  BY <1>0, <2>1, <2>2, <2>3, WithdrawnSession
<1>8. ASSUME NEW s \in Sessions, NEW j \in Invs, CreateMembership(s, j) PROVE Withdrawn(i)'
  <2>. DEFINE new == [sess[s] EXCEPT !.pc = "accept", !.cur = j, !.todo = sess[s].todo \ {j}]
  <2>1. new.todo = sess[s].todo \ {j} /\ new.cur = j /\ i # j
    BY <1>0, <1>8 DEF SessionType, CreateMembership
  <2>2. sess' = [sess EXCEPT ![s] = new] /\ inv' = inv
    BY <1>8 DEF CreateMembership
  <2>. HIDE DEF new
  <2>. QED  BY <1>0, <2>1, <2>2, WithdrawnSession
<1>9. ASSUME NEW s \in Sessions, Accept(s) PROVE Withdrawn(i)'
  <2>. DEFINE new == [sess[s] EXCEPT !.pc = "loop", !.cur = NoInv, !.activated = TRUE]
  <2>1. new.todo = sess[s].todo /\ new.cur = NoInv
    BY <1>0 DEF SessionType
  <2>2. sess' = [sess EXCEPT ![s] = new]
    BY <1>9 DEF Accept
  <2>3. inv'[i] = inv[i]
    BY <1>0, <1>9 DEF Accept, UpdateStatus
  <2>. HIDE DEF new
  <2>. QED  BY <1>0, <2>1, <2>2, <2>3, WithdrawnSession
<1>10. ASSUME NEW s \in Sessions, LoopEnds(s) PROVE Withdrawn(i)'
  <2>. DEFINE new == [NoSession EXCEPT !.pc = "flag"]
  <2>1. new.todo = {} /\ new.cur = NoInv
    BY DEF NoSession
  <2>2. inv' = inv
    BY <1>10 DEF LoopEnds
  <2>3. CASE sess' = [sess EXCEPT ![s] = new]
    <3>. HIDE DEF new
    <3>. QED  BY <1>0, <2>1, <2>2, <2>3, WithdrawnSession
  <2>. QED  BY <1>5, <1>10, <2>2, <2>3 DEF LoopEnds
<1>11. ASSUME NEW s \in Sessions, SetPasswordChangeRequired(s) PROVE Withdrawn(i)'
  <2>. DEFINE new == [sess[s] EXCEPT !.pc = "activate"]
  <2>1. new.todo = sess[s].todo /\ new.cur = sess[s].cur
    BY <1>0 DEF SessionType
  <2>2. sess' = [sess EXCEPT ![s] = new] /\ inv' = inv
    BY <1>11 DEF SetPasswordChangeRequired
  <2>. HIDE DEF new
  <2>. QED  BY <1>0, <2>1, <2>2, WithdrawnSession
<1>12. ASSUME NEW s \in Sessions, SetStatus(s) \/ ActivationFails(s) PROVE Withdrawn(i)'
  BY <1>5, <1>12 DEF SetStatus, ActivationFails
<1>13. ASSUME inv' = inv, sess' = sess PROVE Withdrawn(i)'
  BY <1>0, <1>1, <1>13
<1>14. CASE UNCHANGED vars
  BY <1>13, <1>14 DEF vars
<1>. QED
  BY <1>2, <1>3, <1>4, <1>6, <1>7, <1>8, <1>9, <1>10, <1>11, <1>12, <1>13, <1>14
  DEF Next, Activation, InviteCheck, PassExpiry, RemoveMember, ForcePasswordChange,
      ClearPasswordChangeRequired

(* A revocation that no request in progress has listed before is final,    *)
(* although UpdateStatus asks for no status: for any invitations, requests *)
(* and calls in progress.                                                  *)
THEOREM InvitationsStayRevoked == Spec => RevocationFinal
<1>1. Init => Announced
  BY SlotsTyped DEF Init, Announced
<1>2. IInv /\ Announced /\ [Next]_vars =>
          [\A i \in Invs : Withdrawn(i) => Withdrawn(i)']_vars
  BY WithdrawnNext
<1>. QED  BY <1>1, <1>2, InitInv, NextInv, AnnouncedNext, PTL DEF Spec, RevocationFinal
=============================================================================
