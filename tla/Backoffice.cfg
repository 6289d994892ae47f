\* Two requests at a time; they interleave at every statement.
CONSTANTS
    r1 = r1  r2 = r2
    root = root  boss = boss  ann = ann  bob = bob  eve = eve
    mrg = mrg  acme = acme  neo = neo
    c1 = c1  c2 = c2  c3 = c3
    k1 = k1  k2 = k2
    m1 = m1  m2 = m2  m3 = m3  m4 = m4  m5 = m5  m6 = m6  m7 = m7
    a1 = a1  a2 = a2  n1 = n1
    Requests = {r1, r2}
    Users = {root, boss, ann, bob, eve}
    Tenants = {mrg, acme, neo}
    Platform = mrg
    CustomRoles = {c1, c2, c3}
    CustomPerms = {k1, k2}
    Rows = {m1, m2, m3, m4, m5, m6, m7}
    AlarmRules = {a1, a2}
    Notifications = {n1}
    NoUser = NoUser  NoTenant = NoTenant  NoRole = NoRole
    Callers <- MCCallers
    RoleInputs <- MCRoleInputs
    PermInputs <- MCPermInputs
    Batches <- MCBatches
    MaxCustomRolesPerTenant = 1
    MaxRequests = 2
SPECIFICATION Spec
SYMMETRY Symmetry
INVARIANT BackofficeTypeOK
INVARIANT NoEscalation
INVARIANT DanglingOnlyByRace
INVARIANT Cloaked
INVARIANT Isolated
INVARIANT NoOrphans
PROPERTY PlatformGuarded
PROPERTY RetiredForGood
PROPERTY RoleLimitBounded
CHECK_DEADLOCK FALSE
