CONSTANTS
    t1 = t1
    t2 = t2
    c1 = c1
    c2 = c2
    c3 = c3
    Tenants = {t1, t2}
    Clients = {c1, c2}
    ClientTenant <- MCClientTenant
    Writers = {w1}
    Past = {1}
    Entries <- MCEntries
    EntryTenant <- MCEntryTenant
    Capacity = 1
    Caps = {1, 2, 4}
    NoClient = NoClient
    NoEntry = NoEntry
    CreatedAt <- MCCreatedAt
    Kind <- MCKind
    Filters <- MCFilters
    Readers = {r}
    ReaderTenant <- MCReaderTenant
    Limits = {0}
    DefaultLimit = 1
    MaxLimit = 2
    MaxExport = 2
    Windows = {1}
    DefaultWindow = 1
    MaxWindow = 1
SPECIFICATION Spec
CHECK_DEADLOCK FALSE
INVARIANTS
    StreamTypeOK
    ListedOnce
    CalmDelivery
    PagesFaithful
    ExportHonest
    ContextContiguous
