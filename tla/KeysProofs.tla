----------------------------- MODULE KeysProofs -----------------------------
(***************************************************************************)
(* Proofs about DeviceKeys, for any keys, requests and revocations in      *)
(* progress, and any life of a cache entry.                                *)
(***************************************************************************)
EXTENDS DeviceKeys, TLAPS

(* Whoever is past the verdict holds a credential that is not revoked.     *)
Judged == \A w \in Logins :
    login[w].pc \in {"touch", "use", "accepted"} => ~login[w].cred.revoked

(* A request that found its key works on one that was issued; so does an   *)
(* administrator, and what is being cleared is revoked.                    *)
Found == {"store", "check", "touch", "use", "accepted"}

Issued ==
    /\ \A w \in Logins : login[w].pc \in Found => login[w].key \in created
    /\ \A a \in Admins : admin[a].pc # "idle" => admin[a].key \in created
    /\ \A a \in Admins : admin[a].pc = "invalidate" => admin[a].key \in revoked

KeysInv == TypeOK /\ Judged /\ Issued

-----------------------------------------------------------------------------
(* The empty values have their types.                                      *)
LEMMA KeysDefaults ==
    /\ NoCredential \in CredentialType
    /\ Registry!NoRow \in Registry!RowType
    /\ Registry!NoCall \in Registry!CallType /\ Registry!NoCall.pc = "free"
    /\ \A k \in Keys : NoLogin(k) \in LoginType /\ NoLogin(k).pc = "idle"
<1>1. NoCredential \in CredentialType
  BY DEF NoCredential, CredentialType
<1>2. (CHOOSE c \in Configs : TRUE) \in Configs
  BY KeysAssumption
<1>3. Registry!NoRow \in Registry!RowType
  BY <1>2 DEF Registry!NoRow, Registry!RowType, Registry!HealthValues
<1>4. Registry!NoCall \in Registry!CallType /\ Registry!NoCall.pc = "free"
  BY <1>3 DEF Registry!NoCall, Registry!CallType, Registry!HealthValues
<1>5. \A k \in Keys : NoLogin(k) \in LoginType /\ NoLogin(k).pc = "idle"
  BY <1>1 DEF NoLogin, LoginType, LoginPCs
<1>. QED  BY <1>1, <1>3, <1>4, <1>5

(* Nothing is issued yet.                                                  *)
LEMMA KeysInit == Init => KeysInv
<1>. SUFFICES ASSUME Init PROVE KeysInv
  OBVIOUS
<1>1. Registry!TypeOK
  BY KeysDefaults DEF Init, Registry!Init, Registry!TypeOK
<1>2. cache \in [Keys -> EntryType] /\ \A k \in Keys : cache[k].ttl = 0
  BY KeysDefaults, KeysAssumption DEF Init, EntryType
<1>3. login \in [Logins -> LoginType] /\ \A w \in Logins : login[w].pc = "idle"
  BY KeysDefaults DEF Init
<1>4. admin \in [Admins -> AdminType] /\ \A a \in Admins : admin[a].pc = "idle"
  BY DEF Init, AdminType
<1>5. throttle \in [Keys -> 0..TouchEvery]
  BY KeysAssumption DEF Init
<1>6. TypeOK
  BY <1>1, <1>2, <1>3, <1>4, <1>5 DEF Init, TypeOK
<1>7. Judged /\ Issued
  BY <1>3, <1>4 DEF Judged, Issued, Found
<1>. QED  BY <1>6, <1>7 DEF KeysInv

-----------------------------------------------------------------------------
(* A step of one request: what the new locals and the stores must satisfy. *)
LEMMA LoginFrame ==
    ASSUME KeysInv, NEW w \in Logins, NEW new \in LoginType,
           login' = [login EXCEPT ![w] = new],
           new.pc \in {"touch", "use", "accepted"} => ~new.cred.revoked,
           new.pc \in Found => new.key \in created,
           lastUsed' \subseteq created,
           cache' \in [Keys -> EntryType],
           \A k \in Keys : cache'[k].ttl > 0 => k \in created,
           throttle' \in [Keys -> 0..TouchEvery],
           UNCHANGED <<registryVars, created, revoked, expired, adminVars>>
    PROVE  KeysInv'
<1>1. login \in [Logins -> LoginType]
  BY DEF KeysInv, TypeOK
<1>2. /\ login' \in [Logins -> LoginType] /\ login'[w] = new
      /\ \A o \in Logins : o # w => login'[o] = login[o]
  BY <1>1
<1>3. Registry!TypeOK'
  BY DEF KeysInv, TypeOK, registryVars, Registry!TypeOK, Registry!Registered
<1>4. TypeOK'
  BY <1>2, <1>3 DEF KeysInv, TypeOK, adminVars
<1>5. Judged' /\ Issued'
  BY <1>2 DEF KeysInv, Judged, Issued, adminVars
<1>. QED  BY <1>4, <1>5 DEF KeysInv

(* Postgres answers with a credential.                                     *)
LEMMA CredentialTyped ==
    ASSUME KeysInv, NEW k \in Keys
    PROVE  Credential(k) \in CredentialType
BY KeysAssumption DEF KeysInv, TypeOK, Registry!TypeOK, Registry!RowType, Registry!Statuses,
                      Credential, CredentialType

(* The steps of Authenticate keep the invariant.                           *)
LEMMA LoginSteps ==
    ASSUME KeysInv, NEW w \in Logins,
           Authenticate(w) \/ \E k \in Keys : LoginStart(w, k)
    PROVE  KeysInv'
<1>. DEFINE q == login[w]
<1>0. /\ login \in [Logins -> LoginType] /\ q \in LoginType
      /\ cache \in [Keys -> EntryType] /\ q.key \in Keys /\ q.cred \in CredentialType
      /\ \A k \in Keys : cache[k].ttl > 0 => k \in created
      /\ throttle \in [Keys -> 0..TouchEvery] /\ lastUsed \subseteq created
      /\ q.pc \in {"touch", "use", "accepted"} => ~q.cred.revoked
      /\ q.pc \in Found => q.key \in created
  BY DEF KeysInv, TypeOK, Judged, Issued, LoginType
<1>. DEFINE Stores == /\ lastUsed' = lastUsed /\ cache' = cache /\ throttle' = throttle
                      /\ UNCHANGED <<registryVars, created, revoked, expired, adminVars>>
<1>1. ASSUME NEW p \in LoginPCs, login' = [login EXCEPT ![w].pc = p], Stores,
             p \in {"touch", "use", "accepted"} => ~q.cred.revoked,
             p \in Found => q.key \in created
      PROVE  KeysInv'
  <2>. DEFINE new == [q EXCEPT !.pc = p]
  <2>1. new \in LoginType /\ new.pc = p /\ new.key = q.key /\ new.cred = q.cred
    BY <1>0, <1>1 DEF LoginType
  <2>2. login' = [login EXCEPT ![w] = new]
    BY <1>0, <1>1
  <2>. HIDE DEF new, q
  <2>. QED  BY <1>0, <1>1, <2>1, <2>2, LoginFrame
<1>2. ASSUME NEW k \in Keys, LoginStart(w, k) PROVE KeysInv'
  <2>. DEFINE new == [pc |-> "lookup", key |-> k, cred |-> NoCredential, late |-> k \in cleared]
  <2>1. new \in LoginType /\ new.pc = "lookup"
    BY KeysDefaults DEF LoginType, LoginPCs
  <2>2. login' = [login EXCEPT ![w] = new] /\ Stores
    BY <1>2 DEF LoginStart, tableVars, redisVars
  <2>. HIDE DEF new, q
  <2>. QED  BY <1>0, <2>1, <2>2, LoginFrame DEF Found
<1>3. CASE CacheHit(w)
  <2>1. cache[q.key].cred \in CredentialType /\ q.key \in created
    BY <1>0, <1>3 DEF CacheHit, EntryType
  <2>. DEFINE new == [q EXCEPT !.pc = "check", !.cred = cache[q.key].cred]
  <2>2. new \in LoginType /\ new.pc = "check" /\ new.key = q.key
    BY <1>0, <2>1 DEF LoginType, LoginPCs
  <2>3. login' = [login EXCEPT ![w] = new] /\ Stores
    BY <1>0, <1>3 DEF CacheHit, tableVars, redisVars
  <2>. HIDE DEF new, q
  <2>. QED  BY <1>0, <2>1, <2>2, <2>3, LoginFrame
<1>4. CASE CacheMiss(w) \/ GetByKeyIDFails(w) \/ CacheStoreFails(w)
  BY <1>0, <1>1, <1>4 DEF CacheMiss, GetByKeyIDFails, CacheStoreFails, At, Goto, LoginPCs,
                          Found, tableVars, redisVars
<1>5. CASE GetByKeyID(w)
  <2>1. CASE q.key \notin created
    BY <1>0, <1>1, <1>5, <2>1 DEF GetByKeyID, LoginPCs, Found, tableVars, redisVars
  <2>2. CASE q.key \in created
    <3>. DEFINE new == [q EXCEPT !.pc = "store", !.cred = Credential(q.key)]
    <3>1. new \in LoginType /\ new.pc = "store" /\ new.key = q.key
      BY <1>0, CredentialTyped DEF LoginType, LoginPCs
    <3>2. login' = [login EXCEPT ![w] = new] /\ Stores
      BY <1>0, <1>5, <2>2 DEF GetByKeyID, tableVars, redisVars
    <3>. HIDE DEF new, q
    <3>. QED  BY <1>0, <2>2, <3>1, <3>2, LoginFrame
  <2>. QED  BY <2>1, <2>2
<1>6. CASE CacheStore(w)
  <2>. DEFINE new == [q EXCEPT !.pc = "check"]
  <2>1. new \in LoginType /\ new.pc = "check" /\ new.key = q.key
    BY <1>0 DEF LoginType, LoginPCs
  <2>2. /\ login' = [login EXCEPT ![w] = new] /\ q.key \in created
        /\ cache' = [cache EXCEPT ![q.key] = [cred |-> q.cred, ttl |-> TTL]]
        /\ UNCHANGED <<registryVars, created, revoked, expired, lastUsed, throttle, adminVars>>
    BY <1>0, <1>6 DEF CacheStore, At, Goto, Found, tableVars
  <2>3. [cred |-> q.cred, ttl |-> TTL] \in EntryType
    BY <1>0, KeysAssumption DEF EntryType
  <2>4. cache' \in [Keys -> EntryType] /\ \A k \in Keys : cache'[k].ttl > 0 => k \in created
    BY <1>0, <2>2, <2>3
  <2>. HIDE DEF new, q
  <2>. QED  BY <1>0, <2>1, <2>2, <2>4, LoginFrame
<1>7. CASE Judge(w) \/ WrongSecret(w) \/ TouchSkipped(w)
  <2>1. q.cred.revoked \in BOOLEAN
    BY <1>0 DEF CredentialType
  <2>. QED  BY <1>0, <1>1, <1>7, <2>1 DEF Judge, WrongSecret, TouchSkipped, At, Goto,
                                         LoginPCs, Found, tableVars, redisVars
<1>8. CASE TouchWins(w)
  <2>. DEFINE new == [q EXCEPT !.pc = "use"]
  <2>1. new \in LoginType /\ new.pc = "use" /\ new.key = q.key /\ new.cred = q.cred
    BY <1>0 DEF LoginType, LoginPCs
  <2>2. /\ login' = [login EXCEPT ![w] = new] /\ q.key \in created /\ ~q.cred.revoked
        /\ throttle' = [throttle EXCEPT ![q.key] = TouchEvery]
        /\ UNCHANGED <<registryVars, created, revoked, expired, lastUsed, cache, adminVars>>
    BY <1>0, <1>8 DEF TouchWins, At, Goto, Found, tableVars
  <2>3. throttle' \in [Keys -> 0..TouchEvery]
    BY <1>0, <2>2, KeysAssumption
  <2>. HIDE DEF new, q
  <2>. QED  BY <1>0, <2>1, <2>2, <2>3, LoginFrame
<1>9. CASE TouchLastUsed(w)
  <2>. DEFINE new == [q EXCEPT !.pc = "accepted"]
  <2>1. new \in LoginType /\ new.pc = "accepted" /\ new.key = q.key /\ new.cred = q.cred
    BY <1>0 DEF LoginType, LoginPCs
  <2>2. /\ login' = [login EXCEPT ![w] = new] /\ q.key \in created /\ ~q.cred.revoked
        /\ lastUsed' \subseteq created
        /\ UNCHANGED <<registryVars, created, revoked, expired, cache, throttle, adminVars>>
    BY <1>0, <1>9 DEF TouchLastUsed, At, Goto, Found, redisVars
  <2>. HIDE DEF new, q
  <2>. QED  BY <1>0, <2>1, <2>2, LoginFrame
<1>10. CASE LoginEnd(w)
  <2>. DEFINE new == NoLogin(q.key)
  <2>1. new \in LoginType /\ new.pc = "idle"
    BY <1>0, KeysDefaults
  <2>2. login' = [login EXCEPT ![w] = new] /\ Stores
    BY <1>10 DEF LoginEnd, tableVars, redisVars
  <2>. HIDE DEF new, q
  <2>. QED  BY <1>0, <2>1, <2>2, LoginFrame DEF Found
<1>. QED  BY <1>2, <1>3, <1>4, <1>5, <1>6, <1>7, <1>8, <1>9, <1>10 DEF Authenticate

-----------------------------------------------------------------------------
(* A step of an administrator.                                             *)
LEMMA AdminFrame ==
    ASSUME KeysInv, NEW a \in Admins, NEW new \in AdminType,
           admin' = [admin EXCEPT ![a] = new],
           new.pc # "idle" => new.key \in created,
           new.pc = "invalidate" => new.key \in revoked',
           revoked \subseteq revoked', revoked' \subseteq created,
           cleared' \subseteq revoked',
           cache' \in [Keys -> EntryType],
           \A k \in Keys : cache'[k].ttl > 0 => k \in created,
           UNCHANGED <<registryVars, created, expired, lastUsed, throttle, login>>
    PROVE  KeysInv'
<1>1. admin \in [Admins -> AdminType]
  BY DEF KeysInv, TypeOK
<1>2. /\ admin' \in [Admins -> AdminType] /\ admin'[a] = new
      /\ \A o \in Admins : o # a => admin'[o] = admin[o]
  BY <1>1
<1>3. Registry!TypeOK'
  BY DEF KeysInv, TypeOK, registryVars, Registry!TypeOK, Registry!Registered
<1>4. TypeOK'
  BY <1>2, <1>3 DEF KeysInv, TypeOK
<1>5. Judged'
  BY DEF KeysInv, Judged
<1>6. Issued'
  BY <1>2 DEF KeysInv, Issued
<1>. QED  BY <1>4, <1>5, <1>6 DEF KeysInv

(* RevokeAPIKey, step by step.                                             *)
LEMMA AdminSteps ==
    ASSUME KeysInv, NEW a \in Admins,
           RevokeAPIKey(a) \/ \E k \in Keys : RevokeFind(a, k)
    PROVE  KeysInv'
<1>. DEFINE q == admin[a]
<1>0. /\ admin \in [Admins -> AdminType] /\ q \in AdminType /\ q.key \in Keys
      /\ cache \in [Keys -> EntryType] /\ \A k \in Keys : cache[k].ttl > 0 => k \in created
      /\ revoked \subseteq created /\ cleared \subseteq revoked
      /\ q.pc # "idle" => q.key \in created
      /\ q.pc = "invalidate" => q.key \in revoked
  BY DEF KeysInv, TypeOK, Issued, AdminType
<1>1. ASSUME NEW k \in Keys, RevokeFind(a, k) PROVE KeysInv'
  <2>. DEFINE new == [pc |-> "revoke", key |-> k]
  <2>1. new \in AdminType /\ new.pc = "revoke" /\ new.key = k
    BY DEF AdminType
  <2>2. /\ admin' = [admin EXCEPT ![a] = new] /\ k \in created
        /\ UNCHANGED <<registryVars, created, revoked, expired, lastUsed, cache, throttle,
                       login, cleared>>
    BY <1>1 DEF RevokeFind, tableVars, redisVars
  <2>. HIDE DEF new
  <2>. QED  BY <1>0, <2>1, <2>2, AdminFrame
<1>2. CASE Revoke(a)
  <2>. DEFINE new == [q EXCEPT !.pc = "invalidate"]
  <2>1. new \in AdminType /\ new.pc = "invalidate" /\ new.key = q.key
    BY <1>0 DEF AdminType
  <2>2. /\ admin' = [admin EXCEPT ![a] = new] /\ q.key \in created
        /\ revoked' = revoked \cup {q.key}
        /\ UNCHANGED <<registryVars, created, expired, lastUsed, cache, throttle, login,
                       cleared>>
    BY <1>0, <1>2 DEF Revoke, redisVars
  <2>3. /\ revoked \subseteq revoked' /\ revoked' \subseteq created
        /\ cleared' \subseteq revoked' /\ q.key \in revoked'
    BY <1>0, <2>2
  <2>. HIDE DEF new, q
  <2>. QED  BY <1>0, <2>1, <2>2, <2>3, AdminFrame
<1>3. CASE RevokeFails(a) \/ InvalidateFails(a)
  <2>. DEFINE new == [q EXCEPT !.pc = "idle"]
  <2>1. new \in AdminType /\ new.pc = "idle"
    BY <1>0 DEF AdminType
  <2>2. /\ admin' = [admin EXCEPT ![a] = new]
        /\ UNCHANGED <<registryVars, created, revoked, expired, lastUsed, cache, throttle,
                       login, cleared>>
    BY <1>0, <1>3 DEF RevokeFails, InvalidateFails, tableVars, redisVars
  <2>. HIDE DEF new, q
  <2>. QED  BY <1>0, <2>1, <2>2, AdminFrame
<1>4. CASE InvalidateAPIKeyCache(a)
  <2>. DEFINE new == [q EXCEPT !.pc = "idle"]
  <2>1. new \in AdminType /\ new.pc = "idle"
    BY <1>0 DEF AdminType
  <2>2. /\ admin' = [admin EXCEPT ![a] = new] /\ q.key \in revoked
        /\ cache' = [cache EXCEPT ![q.key] = [cred |-> NoCredential, ttl |-> 0]]
        /\ cleared' = cleared \cup {q.key}
        /\ UNCHANGED <<registryVars, created, revoked, expired, lastUsed, throttle, login>>
    BY <1>0, <1>4 DEF InvalidateAPIKeyCache, tableVars
  <2>3. [cred |-> NoCredential, ttl |-> 0] \in EntryType
    BY KeysDefaults, KeysAssumption DEF EntryType
  <2>4. cache' \in [Keys -> EntryType] /\ \A k \in Keys : cache'[k].ttl > 0 => k \in created
    BY <1>0, <2>2, <2>3
  <2>5. cleared' \subseteq revoked'
    BY <1>0, <2>2
  <2>. HIDE DEF new, q
  <2>. QED  BY <1>0, <2>1, <2>2, <2>4, <2>5, AdminFrame
<1>. QED  BY <1>1, <1>2, <1>3, <1>4 DEF RevokeAPIKey

-----------------------------------------------------------------------------
(* The clock, an expiry and an issue.                                      *)
LEMMA ClockSteps ==
    ASSUME KeysInv, Tick \/ \E k \in Keys : Expire(k) \/ CreateAPIKey(k)
    PROVE  KeysInv'
<1>. USE DEF tableVars, redisVars, adminVars, registryVars
<1>0. /\ Registry!TypeOK /\ cache \in [Keys -> EntryType]
      /\ throttle \in [Keys -> 0..TouchEvery] /\ created \subseteq Keys
  BY DEF KeysInv, TypeOK
<1>1. CASE Tick
  <2>1. cache' \in [Keys -> EntryType]
    <3>. SUFFICES ASSUME NEW k \in Keys PROVE cache'[k] \in EntryType
      BY <1>1 DEF Tick
    <3>1. CASE cache[k].ttl <= 1
      BY <1>1, <3>1, KeysDefaults, KeysAssumption DEF Tick, EntryType
    <3>2. CASE ~(cache[k].ttl <= 1)
      <4>1. cache[k].ttl \in 0..TTL /\ cache[k] \in EntryType
        BY <1>0 DEF EntryType
      <4>2. cache'[k] = [cache[k] EXCEPT !.ttl = cache[k].ttl - 1]
        BY <1>1, <3>2 DEF Tick
      <4>3. cache[k].ttl - 1 \in 0..TTL
        BY <3>2, <4>1, KeysAssumption
      <4>. QED  BY <4>1, <4>2, <4>3 DEF EntryType
    <3>. QED  BY <3>1, <3>2
  <2>2. \A k \in Keys : cache'[k].ttl > 0 => cache[k].ttl > 0
    <3>. SUFFICES ASSUME NEW k \in Keys, ~(cache[k].ttl > 0) PROVE ~(cache'[k].ttl > 0)
      OBVIOUS
    <3>1. cache[k].ttl <= 1
      BY <1>0, KeysAssumption DEF EntryType
    <3>. QED  BY <1>1, <3>1 DEF Tick
  <2>3. throttle' \in [Keys -> 0..TouchEvery]
    <3>1. \A n \in 0..TouchEvery : Less(n) \in 0..TouchEvery
      BY KeysAssumption DEF Less
    <3>. QED  BY <1>0, <1>1, <3>1 DEF Tick
  <2>4. Registry!TypeOK'
    BY <1>0, <1>1 DEF Tick, Registry!TypeOK, Registry!Registered
  <2>. QED  BY <1>1, <2>1, <2>2, <2>3, <2>4 DEF Tick, KeysInv, TypeOK, Judged, Issued
<1>2. ASSUME NEW k \in Keys, Expire(k) PROVE KeysInv'
  <2>1. Registry!TypeOK'
    BY <1>0, <1>2 DEF Expire, Registry!TypeOK, Registry!Registered
  <2>. QED  BY <1>2, <2>1 DEF Expire, KeysInv, TypeOK, Judged, Issued
<1>3. ASSUME NEW k \in Keys, CreateAPIKey(k) PROVE KeysInv'
  <2>1. Registry!TypeOK'
    BY <1>0, <1>3 DEF CreateAPIKey, Registry!TypeOK, Registry!Registered
  <2>2. created \subseteq created' /\ created' \subseteq Keys
    BY <1>0, <1>3 DEF CreateAPIKey
  <2>. QED  BY <1>3, <2>1, <2>2 DEF CreateAPIKey, KeysInv, TypeOK, Judged, Issued
<1>. QED  BY <1>1, <1>2, <1>3

(* The registry's steps keep its types.                                    *)
LEMMA RegistrySteps ==
    ASSUME KeysInv, RegistryStep
    PROVE  KeysInv'
<1>0. /\ Registry!TypeOK /\ row \in [Devices -> Registry!RowType]
      /\ call \in [Calls -> Registry!CallType]
  BY DEF KeysInv, TypeOK, Registry!TypeOK
<1>1. SUFFICES Registry!TypeOK'
  BY <1>1 DEF RegistryStep, KeysInv, TypeOK, Judged, Issued, tableVars, redisVars, adminVars
<1>2. ASSUME NEW d \in Devices, NEW new \in Registry!RowType,
             row' = [row EXCEPT ![d] = new], new.status # "absent",
             UNCHANGED <<events, call>>
      PROVE  Registry!TypeOK'
  <2>1. /\ row' \in [Devices -> Registry!RowType] /\ row'[d] = new
        /\ \A o \in Devices : o # d => row'[o] = row[o]
    BY <1>0, <1>2
  <2>. QED  BY <1>0, <1>2, <2>1 DEF Registry!TypeOK, Registry!Registered
<1>3. ASSUME NEW d \in Devices, Registry!CreateDevice(d) PROVE Registry!TypeOK'
  <2>1. PICK cfg \in Configs : row' = [row EXCEPT ![d] =
            [status |-> "ACTIVE", config |-> cfg, health |-> "UNKNOWN", seen |-> FALSE]]
    BY <1>3 DEF Registry!CreateDevice
  <2>. DEFINE new == [status |-> "ACTIVE", config |-> cfg, health |-> "UNKNOWN",
                      seen |-> FALSE]
  <2>2. new \in Registry!RowType /\ new.status # "absent"
    BY DEF Registry!RowType, Registry!Statuses, Registry!HealthValues
  <2>3. /\ UNCHANGED <<events, call>>
    BY <1>0, <1>3 DEF Registry!CreateDevice, Registry!Statuses
  <2>4. row' = [row EXCEPT ![d] = new]
    BY <2>1
  <2>. HIDE DEF new
  <2>. QED  BY <1>2, <2>2, <2>3, <2>4
<1>4. ASSUME NEW d \in Devices, Registry!EnableDevice(d) \/ Registry!DisableDevice(d)
      PROVE  Registry!TypeOK'
  <2>1. PICK s \in Registry!Statuses : Registry!SetStatus(d, s)
    BY <1>4 DEF Registry!EnableDevice, Registry!DisableDevice, Registry!Statuses
  <2>. DEFINE new == [row[d] EXCEPT !.status = s]
  <2>2. new \in Registry!RowType /\ new.status # "absent"
    BY <1>0 DEF Registry!RowType, Registry!Statuses
  <2>3. /\ UNCHANGED <<events, call>> /\ row' = [row EXCEPT ![d] = new]
    BY <1>0, <2>1 DEF Registry!SetStatus
  <2>. HIDE DEF new
  <2>. QED  BY <1>2, <2>2, <2>3
<1>5. ASSUME NEW c \in Calls, NEW d \in Devices, Registry!UpdateRead(c, d)
      PROVE  Registry!TypeOK'
  <2>1. PICK cfg \in Configs : call' = [call EXCEPT ![c] =
            [Registry!NoCall EXCEPT !.pc = "update", !.dev = d,
                                    !.copy = [row[d] EXCEPT !.config = cfg]]]
    BY <1>5 DEF Registry!UpdateRead
  <2>. DEFINE copy == [row[d] EXCEPT !.config = cfg]
              new  == [Registry!NoCall EXCEPT !.pc = "update", !.dev = d, !.copy = copy]
  <2>2. copy \in Registry!RowType /\ copy.status \in Registry!Statuses
    BY <1>0, <1>5 DEF Registry!RowType, Registry!UpdateRead, Registry!Registered
  <2>. HIDE DEF copy
  <2>3. new \in Registry!CallType /\ new.pc = "update" /\ new.dev = d /\ new.copy = copy
    BY <2>2, KeysDefaults DEF Registry!CallType
  <2>4. /\ call' = [call EXCEPT ![c] = new] /\ UNCHANGED <<row, events>>
        /\ Registry!Registered(d)
    BY <1>5, <2>1 DEF Registry!UpdateRead, copy
  <2>. HIDE DEF new
  <2>5. /\ call' \in [Calls -> Registry!CallType] /\ call'[c] = new
        /\ \A o \in Calls : o # c => call'[o] = call[o]
    BY <1>0, <2>3, <2>4
  <2>. QED  BY <1>0, <2>2, <2>3, <2>4, <2>5 DEF Registry!TypeOK, Registry!Registered
<1>6. ASSUME NEW c \in Calls, Registry!UpdateWrite(c) PROVE Registry!TypeOK'
  <2>. DEFINE d == call[c].dev
  <2>1. /\ call[c].pc = "update" /\ d \in Devices /\ row[d] \in Registry!RowType
        /\ call[c].copy.status \in Registry!Statuses /\ call[c].copy.config \in Configs
    BY <1>0, <1>6 DEF Registry!UpdateWrite, Registry!TypeOK, Registry!CallType,
                      Registry!RowType
  <2>. DEFINE new == [row[d] EXCEPT !.config = call[c].copy.config,
                                    !.status = call[c].copy.status]
  <2>2. new \in Registry!RowType /\ new.status # "absent"
    BY <2>1 DEF Registry!RowType, Registry!Statuses
  <2>3. /\ row' = [row EXCEPT ![d] = new] /\ call' = [call EXCEPT ![c] = Registry!NoCall]
        /\ UNCHANGED events
    BY <1>0, <1>6, <2>1 DEF Registry!UpdateWrite
  <2>. HIDE DEF new, d
  <2>4. /\ row' \in [Devices -> Registry!RowType] /\ row'[d] = new
        /\ \A o \in Devices : o # d => row'[o] = row[o]
        /\ call' \in [Calls -> Registry!CallType] /\ call'[c].pc = "free"
        /\ \A o \in Calls : o # c => call'[o] = call[o]
    BY <1>0, <2>1, <2>2, <2>3, KeysDefaults
  <2>. QED  BY <1>0, <2>2, <2>3, <2>4 DEF Registry!TypeOK, Registry!Registered
<1>. QED  BY <1>3, <1>4, <1>5, <1>6 DEF RegistryStep

(* Every step keeps the invariant.                                         *)
LEMMA KeysNext == KeysInv /\ [Next]_vars => KeysInv'
<1>. SUFFICES ASSUME KeysInv, [Next]_vars PROVE KeysInv'
  OBVIOUS
<1>1. CASE Next
  BY <1>1, LoginSteps, AdminSteps, ClockSteps, RegistrySteps DEF Next
<1>2. CASE UNCHANGED vars
  <2>1. Registry!TypeOK'
    BY <1>2 DEF vars, registryVars, KeysInv, TypeOK, Registry!TypeOK, Registry!Registered
  <2>. QED  BY <1>2, <2>1 DEF vars, registryVars, tableVars, redisVars, adminVars, KeysInv,
                              TypeOK, Judged, Issued
<1>. QED  BY <1>1, <1>2

(* Type correctness of the keys, their cache and the registry beneath.     *)
THEOREM KeysTyped == Spec => []TypeOK
<1>1. KeysInv => TypeOK
  BY DEF KeysInv
<1>. QED  BY <1>1, KeysInit, KeysNext, PTL DEF Spec

-----------------------------------------------------------------------------
(* A request of a forgotten key finds it revoked, wherever it looks.       *)
LEMMA LoginForgets ==
    ASSUME KeysInv, NEW k \in Keys, Forgotten(k), NEW w \in Logins,
           Authenticate(w) \/ \E j \in Keys : LoginStart(w, j)
    PROVE  Forgotten(k)' /\ \A o \in Logins : ~Accepted(o, k)'
<1>. DEFINE Good(q) == q.pc \in Found /\ ~q.cred.revoked
<1>. USE DEF tableVars, redisVars, adminVars
<1>0. /\ login \in [Logins -> LoginType] /\ cache \in [Keys -> EntryType]
      /\ k \in revoked /\ (cache[k].ttl > 0 => cache[k].cred.revoked)
      /\ \A o \in Logins : login[o].key = k => ~Good(login[o])
  BY DEF KeysInv, TypeOK, Forgotten, Holds, Found
<1>1. \A o \in Logins : login[o].key = k => login[o].pc \notin {"touch", "use", "accepted"}
  BY <1>0 DEF KeysInv, Judged, Found
<1>2. SUFFICES /\ revoked' = revoked
               /\ cache'[k].ttl > 0 => cache'[k].cred.revoked
               /\ \A o \in Logins : o # w => login'[o] = login[o]
               /\ login'[w].key = k => /\ ~Good(login'[w])
                                      /\ login'[w].pc # "accepted"
  BY <1>0, <1>1, <1>2 DEF Forgotten, Holds, Accepted, Found
<1>3. ASSUME NEW j \in Keys, LoginStart(w, j) PROVE <1>2!1
  BY <1>0, <1>3 DEF LoginStart, Found
<1>4. CASE CacheHit(w)
  BY <1>0, <1>4 DEF CacheHit, LoginType
<1>5. CASE CacheMiss(w) \/ GetByKeyIDFails(w) \/ WrongSecret(w)
  BY <1>0, <1>5 DEF CacheMiss, GetByKeyIDFails, WrongSecret, Goto, LoginType, Found
<1>6. CASE GetByKeyID(w)
  BY <1>0, <1>6 DEF GetByKeyID, Credential, LoginType, Found
<1>7. CASE CacheStore(w) \/ CacheStoreFails(w)
  BY <1>0, <1>7 DEF CacheStore, CacheStoreFails, At, Goto, LoginType, Found
<1>8. CASE Judge(w)
  BY <1>0, <1>8 DEF Judge, At, Goto, LoginType, Found
<1>9. CASE TouchWins(w) \/ TouchSkipped(w) \/ TouchLastUsed(w)
  BY <1>0, <1>1, <1>9 DEF TouchWins, TouchSkipped, TouchLastUsed, At, Goto, LoginType, Found
<1>10. CASE LoginEnd(w)
  BY <1>0, <1>10 DEF LoginEnd, NoLogin, Found
<1>. QED  BY <1>3, <1>4, <1>5, <1>6, <1>7, <1>8, <1>9, <1>10 DEF Authenticate

(* The other steps leave requests alone and only take from the cache.      *)
LEMMA OthersForget ==
    ASSUME KeysInv, NEW k \in Keys, Forgotten(k),
           \/ Tick \/ RegistryStep \/ UNCHANGED vars
           \/ \E j \in Keys : Expire(j) \/ CreateAPIKey(j)
           \/ \E a \in Admins : RevokeAPIKey(a) \/ \E j \in Keys : RevokeFind(a, j)
    PROVE  Forgotten(k)' /\ \A o \in Logins : ~Accepted(o, k)'
<1>. USE DEF tableVars, redisVars, adminVars
<1>0. /\ login \in [Logins -> LoginType] /\ cache \in [Keys -> EntryType]
      /\ k \in revoked /\ (cache[k].ttl > 0 => cache[k].cred.revoked)
  BY DEF KeysInv, TypeOK, Forgotten
<1>1. \A o \in Logins : ~Accepted(o, k)
  BY DEF KeysInv, Judged, Forgotten, Holds, Accepted
<1>2. SUFFICES /\ login' = login /\ k \in revoked'
               /\ cache'[k].ttl > 0 => cache'[k].cred.revoked
  BY <1>1, <1>2 DEF Forgotten, Holds, Accepted
<1>3. CASE Tick
  <2>1. login' = login /\ revoked' = revoked
    BY <1>3 DEF Tick
  <2>2. CASE cache[k].ttl <= 1
    BY <1>0, <1>3, <2>1, <2>2 DEF Tick
  <2>3. CASE ~(cache[k].ttl <= 1)
    <3>1. cache[k].ttl > 0 /\ cache[k] \in EntryType
      BY <1>0, <2>3, KeysAssumption DEF EntryType
    <3>2. cache'[k] = [cache[k] EXCEPT !.ttl = cache[k].ttl - 1]
      BY <1>3, <2>3 DEF Tick
    <3>3. cache'[k].cred = cache[k].cred
      BY <3>1, <3>2 DEF EntryType
    <3>. QED  BY <1>0, <2>1, <3>1, <3>3
  <2>. QED  BY <2>2, <2>3
<1>4. CASE RegistryStep \/ UNCHANGED vars \/ \E j \in Keys : Expire(j) \/ CreateAPIKey(j)
  BY <1>0, <1>4 DEF RegistryStep, vars, Expire, CreateAPIKey
<1>5. ASSUME NEW a \in Admins, RevokeAPIKey(a) \/ \E j \in Keys : RevokeFind(a, j)
      PROVE  <1>2!1
  BY <1>0, <1>5 DEF RevokeAPIKey, Revoke, RevokeFails, InvalidateAPIKeyCache, InvalidateFails,
                    RevokeFind, NoCredential
<1>. QED  BY <1>3, <1>4, <1>5

(* Once neither the cache nor a request remembers a revoked key as good,   *)
(* nothing ever will again, and no request gets in with it.                *)
THEOREM KeysRevocationSticks == Spec => RevocationSticks
<1>1. KeysInv /\ [Next]_vars =>
          [\A k \in Keys : Forgotten(k) =>
              Forgotten(k)' /\ \A w \in Logins : ~Accepted(w, k)']_vars
  <2>. SUFFICES ASSUME KeysInv, [Next]_vars, NEW k \in Keys, Forgotten(k)
                PROVE  Forgotten(k)' /\ \A w \in Logins : ~Accepted(w, k)'
    OBVIOUS
  <2>1. CASE \E w \in Logins : Authenticate(w) \/ \E j \in Keys : LoginStart(w, j)
    BY <2>1, LoginForgets
  <2>2. CASE \/ Tick \/ RegistryStep \/ UNCHANGED vars
             \/ \E j \in Keys : Expire(j) \/ CreateAPIKey(j)
             \/ \E a \in Admins : RevokeAPIKey(a) \/ \E j \in Keys : RevokeFind(a, j)
    BY <2>2, OthersForget
  <2>. QED  BY <2>1, <2>2 DEF Next
<1>. QED  BY <1>1, KeysInit, KeysNext, PTL DEF Spec, RevocationSticks
=============================================================================
