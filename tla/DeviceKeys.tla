----------------------------- MODULE DeviceKeys -----------------------------
(***************************************************************************)
(* API keys of edge devices: issue and revocation by the users of a tenant *)
(* (internal/app/edge_devices), and their check on every request of a Pi   *)
(* (internal/security), which reads Postgres through a cache in Redis.     *)
(*                                                                         *)
(* Redis and Postgres are two stores: a check reads one, then the other,   *)
(* then writes the first, while a revocation writes Postgres and then      *)
(* deletes from Redis.  Redis may fail at any call, its entries expire by  *)
(* themselves (Tick), and the status a credential carries belongs to the   *)
(* device registry, whose operations go on meanwhile.                      *)
(***************************************************************************)
EXTENDS Naturals

CONSTANTS
    Devices, TenantOf, MachineOf, Configs, Calls, NoDevice,   \* DeviceRegistry
    Keys,        \* API keys that may be issued
    DeviceOf,    \* key -> the device it is issued for
    Logins,      \* slots for requests of Pis being authenticated
    Admins,      \* slots for RevokeAPIKey calls in progress
    TTL,         \* life of a cache entry, in ticks
    TouchEvery   \* life of the last_used_at throttle, in ticks

ASSUME KeysAssumption ==
    /\ DeviceOf \in [Keys -> Devices]
    /\ NoDevice \notin Devices
    /\ Configs # {}
    /\ TTL \in Nat \ {0}
    /\ TouchEvery \in Nat \ {0}

VARIABLES
    row, events, call,   \* DeviceRegistry
    created, revoked,  \* rows of edge_device_api_keys, those with revoked_at
    expired,           \* keys whose expires_at is past
    lastUsed,          \* keys whose last_used_at was written
    cache,             \* key -> cached credential and its remaining life
    throttle,          \* key -> remaining life of apikey:touch:<key>
    login,             \* slot -> locals of Authenticate
    admin,             \* slot -> locals of RevokeAPIKey
    cleared            \* keys whose RevokeAPIKey ended with the entry deleted

Registry == INSTANCE DeviceRegistry

registryVars == <<row, events, call>>
tableVars    == <<created, revoked, expired, lastUsed>>
redisVars    == <<cache, throttle>>
adminVars    == <<admin, cleared>>
vars         == <<registryVars, tableVars, redisVars, login, adminVars>>

(* Credential: the part of the row and of its device that Authenticate     *)
(* judges.  expires_at never changes, so it is judged by the clock alone.  *)
Credential(k) == [revoked |-> k \in revoked, status |-> row[DeviceOf[k]].status]

NoCredential == [revoked |-> TRUE, status |-> "absent"]

NoLogin(k) == [pc |-> "idle", key |-> k, cred |-> NoCredential, late |-> FALSE]

Init ==
    /\ Registry!Init
    /\ created = {} /\ revoked = {} /\ expired = {} /\ lastUsed = {}
    /\ cache = [k \in Keys |-> [cred |-> NoCredential, ttl |-> 0]]
    /\ throttle = [k \in Keys |-> 0]
    /\ login \in [Logins -> {NoLogin(k) : k \in Keys}]
    /\ admin \in [Admins -> {[pc |-> "idle", key |-> k] : k \in Keys}]
    /\ cleared = {}

-----------------------------------------------------------------------------
(* The clock: one unit of the life of every Redis entry; an entry with     *)
(* none left is gone.                                                      *)
Less(n) == IF n = 0 THEN 0 ELSE n - 1

Tick ==
    /\ cache' = [k \in Keys |-> IF cache[k].ttl <= 1
                                THEN [cred |-> NoCredential, ttl |-> 0]
                                ELSE [cache[k] EXCEPT !.ttl = cache[k].ttl - 1]]
    /\ throttle' = [k \in Keys |-> Less(throttle[k])]
    /\ UNCHANGED <<registryVars, tableVars, login, adminVars>>

(* expires_at of a key passes.                                             *)
Expire(k) ==
    /\ k \in created \ expired
    /\ expired' = expired \cup {k}
    /\ UNCHANGED <<registryVars, created, revoked, lastUsed, redisVars, login, adminVars>>

-----------------------------------------------------------------------------
(* The users' operations.                                                  *)

(* CreateAPIKey: the device exists, a fresh key_id is inserted.            *)
CreateAPIKey(k) ==
    /\ Registry!Registered(DeviceOf[k])
    /\ k \notin created
    /\ created' = created \cup {k}
    /\ UNCHANGED <<registryVars, revoked, expired, lastUsed, redisVars, login, adminVars>>

(* RevokeAPIKey: ListByDevice finds the key (otherwise ErrKeyNotFound).    *)
RevokeFind(a, k) ==
    /\ admin[a].pc = "idle"
    /\ k \in created
    /\ admin' = [admin EXCEPT ![a] = [pc |-> "revoke", key |-> k]]
    /\ UNCHANGED <<registryVars, tableVars, redisVars, login, cleared>>

(* Revoke: revoked_at is set, once; an already revoked key is no error.    *)
Revoke(a) ==
    /\ admin[a].pc = "revoke"
    /\ revoked' = revoked \cup {admin[a].key}
    /\ admin' = [admin EXCEPT ![a].pc = "invalidate"]
    /\ UNCHANGED <<registryVars, created, expired, lastUsed, redisVars, login, cleared>>

(* Postgres fails: the operation fails and the cache is left alone.        *)
RevokeFails(a) ==
    /\ admin[a].pc = "revoke"
    /\ admin' = [admin EXCEPT ![a].pc = "idle"]
    /\ UNCHANGED <<registryVars, tableVars, redisVars, login, cleared>>

(* InvalidateAPIKeyCache.                                                  *)
InvalidateAPIKeyCache(a) ==
    LET k == admin[a].key
    IN  /\ admin[a].pc = "invalidate"
        /\ cache' = [cache EXCEPT ![k] = [cred |-> NoCredential, ttl |-> 0]]
        /\ cleared' = cleared \cup {k}
        /\ admin' = [admin EXCEPT ![a].pc = "idle"]
        /\ UNCHANGED <<registryVars, tableVars, throttle, login>>

(* Redis fails: a warning, and the entry lives on until its TTL.           *)
InvalidateFails(a) ==
    /\ admin[a].pc = "invalidate"
    /\ admin' = [admin EXCEPT ![a].pc = "idle"]
    /\ UNCHANGED <<registryVars, tableVars, redisVars, login, cleared>>

-----------------------------------------------------------------------------
(* Authenticate, in a request of a Pi that presents key k.                 *)

At(w, p) == login[w].pc = p
Goto(w, p) == login' = [login EXCEPT ![w].pc = p]

LoginStart(w, k) ==
    /\ At(w, "idle")
    /\ login' = [login EXCEPT ![w] = [pc |-> "lookup", key |-> k, cred |-> NoCredential,
                                      late |-> k \in cleared]]
    /\ UNCHANGED <<registryVars, tableVars, redisVars, adminVars>>

(* Mutant: a hit renews the entry.                                         *)
CacheHitRenews(w) ==
    LET k == login[w].key
    IN  /\ At(w, "lookup")
        /\ cache[k].ttl > 0
        /\ login' = [login EXCEPT ![w].pc = "check", ![w].cred = cache[k].cred]
        /\ cache' = [cache EXCEPT ![k].ttl = TTL]
        /\ UNCHANGED <<registryVars, tableVars, throttle, adminVars>>

(* Mutant: RevokedAt is left out of the cached JSON.                       *)
CacheHitForgets(w) ==
    LET k == login[w].key
    IN  /\ At(w, "lookup")
        /\ cache[k].ttl > 0
        /\ login' = [login EXCEPT ![w].pc = "check",
                                  ![w].cred = [cache[k].cred EXCEPT !.revoked = FALSE]]
        /\ UNCHANGED <<registryVars, tableVars, redisVars, adminVars>>

(* lookup: the entry is in Redis.                                          *)
CacheHit(w) ==
    LET k == login[w].key
    IN  /\ At(w, "lookup")
        /\ cache[k].ttl > 0
        /\ login' = [login EXCEPT ![w].pc = "check", ![w].cred = cache[k].cred]
        /\ UNCHANGED <<registryVars, tableVars, redisVars, adminVars>>

(* lookup: it is not, or Redis does not answer.                            *)
CacheMiss(w) ==
    /\ At(w, "lookup")
    /\ Goto(w, "select")
    /\ UNCHANGED <<registryVars, tableVars, redisVars, adminVars>>

(* GetByKeyID: the credential as Postgres has it now; no such key is 403.  *)
GetByKeyID(w) ==
    LET k == login[w].key
    IN  /\ At(w, "select")
        /\ login' = IF k \in created
                    THEN [login EXCEPT ![w].pc = "store", ![w].cred = Credential(k)]
                    ELSE [login EXCEPT ![w].pc = "refused"]
        /\ UNCHANGED <<registryVars, tableVars, redisVars, adminVars>>

(* Postgres fails: 500, not 403.                                           *)
GetByKeyIDFails(w) ==
    /\ At(w, "select")
    /\ Goto(w, "error")
    /\ UNCHANGED <<registryVars, tableVars, redisVars, adminVars>>

(* The credential read is cached for TTL, whatever happened since.         *)
CacheStore(w) ==
    /\ At(w, "store")
    /\ cache' = [cache EXCEPT ![login[w].key] = [cred |-> login[w].cred, ttl |-> TTL]]
    /\ Goto(w, "check")
    /\ UNCHANGED <<registryVars, tableVars, throttle, adminVars>>

(* Redis fails: the request goes on with what Postgres said.               *)
CacheStoreFails(w) ==
    /\ At(w, "store")
    /\ Goto(w, "check")
    /\ UNCHANGED <<registryVars, tableVars, redisVars, adminVars>>

(* The verdict on the credential in hand, whose secret matches.            *)
Judge(w) ==
    LET c == login[w].cred
    IN  /\ At(w, "check")
        /\ Goto(w, IF c.revoked \/ login[w].key \in expired \/ c.status # "ACTIVE"
                   THEN "refused" ELSE "touch")
        /\ UNCHANGED <<registryVars, tableVars, redisVars, adminVars>>

(* The secret does not match the hash.                                     *)
WrongSecret(w) ==
    /\ At(w, "check")
    /\ Goto(w, "refused")
    /\ UNCHANGED <<registryVars, tableVars, redisVars, adminVars>>

(* touch: SETNX wins and last_used_at is to be written.                    *)
TouchWins(w) ==
    /\ At(w, "touch")
    /\ throttle[login[w].key] = 0
    /\ throttle' = [throttle EXCEPT ![login[w].key] = TouchEvery]
    /\ Goto(w, "use")
    /\ UNCHANGED <<registryVars, tableVars, cache, adminVars>>

(* touch: SETNX loses or Redis fails; the identity is returned.            *)
TouchSkipped(w) ==
    /\ At(w, "touch")
    /\ Goto(w, "accepted")
    /\ UNCHANGED <<registryVars, tableVars, redisVars, adminVars>>

(* TouchLastUsed, whose failure does not matter.                           *)
TouchLastUsed(w) ==
    /\ At(w, "use")
    /\ lastUsed' \in {lastUsed, lastUsed \cup {login[w].key}}
    /\ Goto(w, "accepted")
    /\ UNCHANGED <<registryVars, created, revoked, expired, redisVars, adminVars>>

(* APIKeyAuth answers 403 or 500, or lets the request through.             *)
LoginEnd(w) ==
    /\ login[w].pc \in {"accepted", "refused", "error"}
    /\ login' = [login EXCEPT ![w] = NoLogin(login[w].key)]
    /\ UNCHANGED <<registryVars, tableVars, redisVars, adminVars>>

-----------------------------------------------------------------------------
Authenticate(w) ==
    \/ CacheHit(w) \/ CacheMiss(w) \/ GetByKeyID(w) \/ GetByKeyIDFails(w)
    \/ CacheStore(w) \/ CacheStoreFails(w) \/ Judge(w) \/ WrongSecret(w)
    \/ TouchWins(w) \/ TouchSkipped(w) \/ TouchLastUsed(w) \/ LoginEnd(w)

RevokeAPIKey(a) ==
    \/ Revoke(a) \/ RevokeFails(a) \/ InvalidateAPIKeyCache(a) \/ InvalidateFails(a)

(* The registry's operations that touch the status of a device.            *)
RegistryStep ==
    /\ \/ \E d \in Devices : \/ Registry!CreateDevice(d)
                             \/ Registry!EnableDevice(d) \/ Registry!DisableDevice(d)
       \/ \E c \in Calls, d \in Devices : Registry!UpdateRead(c, d)
       \/ \E c \in Calls : Registry!UpdateWrite(c)
    /\ UNCHANGED <<tableVars, redisVars, login, adminVars>>

Next ==
    \/ Tick
    \/ RegistryStep
    \/ \E k \in Keys : Expire(k) \/ CreateAPIKey(k)
    \/ \E a \in Admins, k \in Keys : RevokeFind(a, k)
    \/ \E a \in Admins : RevokeAPIKey(a)
    \/ \E w \in Logins, k \in Keys : LoginStart(w, k)
    \/ \E w \in Logins : Authenticate(w)

Spec == Init /\ [][Next]_vars

(* Time passes and a request that started comes to its end.  Nobody has to *)
(* send requests, issue keys or revoke them.                               *)
FairSpec ==
    /\ Spec
    /\ WF_vars(Tick)
    /\ \A w \in Logins : WF_vars(Authenticate(w))

-----------------------------------------------------------------------------
(* Properties.                                                             *)

CredentialType == [revoked : BOOLEAN, status : {"absent", "ACTIVE", "DISABLED"}]
LoginPCs == {"idle", "lookup", "select", "store", "check", "touch", "use",
             "accepted", "refused", "error"}
EntryType == [cred : CredentialType, ttl : 0..TTL]
LoginType == [pc : LoginPCs, key : Keys, cred : CredentialType, late : BOOLEAN]
AdminType == [pc : {"idle", "revoke", "invalidate"}, key : Keys]

(* Every variable keeps its shape; only keys that were issued are revoked, *)
(* expired, used or cached.                                                *)
TypeOK ==
    /\ Registry!TypeOK
    /\ created \subseteq Keys
    /\ revoked \subseteq created /\ expired \subseteq created /\ lastUsed \subseteq created
    /\ cache \in [Keys -> EntryType]
    /\ \A k \in Keys : cache[k].ttl > 0 => k \in created
    /\ throttle \in [Keys -> 0..TouchEvery]
    /\ login \in [Logins -> LoginType]
    /\ admin \in [Admins -> AdminType]
    /\ cleared \subseteq revoked

(* A login holds, or has been let in with, a credential that says its key  *)
(* is not revoked.                                                         *)
Holds(w, k) ==
    /\ login[w].key = k
    /\ login[w].pc \in {"store", "check", "touch", "use", "accepted"}
    /\ ~login[w].cred.revoked

(* Neither the cache nor any request in progress remembers the key as it   *)
(* was before its revocation.                                              *)
Forgotten(k) ==
    /\ k \in revoked
    /\ cache[k].ttl > 0 => cache[k].cred.revoked
    /\ \A w \in Logins : ~Holds(w, k)

Accepted(w, k) == login[w].key = k /\ login[w].pc = "accepted"

(* CE-005: once nothing remembers a revoked key as good, no request gets   *)
(* in with it again and nothing ever puts a good copy back in the cache.   *)
RevocationSticks ==
    [][\A k \in Keys : Forgotten(k) =>
          Forgotten(k)' /\ \A w \in Logins : ~Accepted(w, k)']_vars

(* The key of an active device that is neither revoked nor expired.        *)
Usable(k) == k \in created \ (revoked \cup expired) /\ row[DeviceOf[k]].status = "ACTIVE"

(* RF-002: a key that stops being usable for good (revoked, expired, or of *)
(* a device left disabled) is refused for good from some moment on, even   *)
(* if the invalidation failed and the Pi never stops asking: the TTL of    *)
(* the cache runs out under load.                                          *)
RefusedInTheEnd ==
    \A k \in Keys : <>[]~Usable(k) => <>[](\A w \in Logins : ~Accepted(w, k))

(* What the comment of RevokeAPIKey says its order of writes is for: after *)
(* it returned with the entry deleted, a request that starts with the key  *)
(* is refused, for no concurrent write can cache the old version again.    *)
RevokedThenRefused == \A w \in Logins : login[w].pc = "accepted" => ~login[w].late
=============================================================================
