CONSTANTS
    Devices = {"d1", "d2"}
    Tenants = {"t1", "t2"}
    Machines <- MCMachines
    EventIds <- MCEventIds
    Events <- TwinEvents
    Requests = {r1, r2}
    TenantOf <- TwinTenantOf
    MachineOf <- TwinMachineOf
    Owner <- TwinOwner
    Raw <- TwinRaw
    EdgeBatch = 2
    MaxEvents = 1
    EventBytes = 1
    MaxBodyBytes = 3
    MaxFaults = 2
    NoValue = NoValue
    NoRequest = NoRequest
    r1 = r1
    r2 = r2
SPECIFICATION FairSpec
INVARIANTS
    NoDuplicates
    BadRequestIsEnvelope
PROPERTIES
    Delivers
    DrainsUnlessDegraded
CHECK_DEADLOCK FALSE
